---- MODULE Spec2Model ----
(***************************************************************************)
(* Identity resolution and profile enrichment engine of                    *)
(* conference-connection: the in-memory rate limiter, the endpoint gates,  *)
(* the enrichment pipeline with its model cache, and the lookup / claim    *)
(* flow over the attendee table.                                           *)
(***************************************************************************)
EXTENDS Integers, Sequences, FiniteSets, TLC

VARIABLES
    now,            \* Date.now(), in milliseconds since the module was loaded
    memoryStore,    \* rate-limit.ts: Map key -> {count, resetAt}
    lastCleanup,    \* rate-limit.ts: time of the last reaping pass
    rlReqs,         \* per key: requests received since the entry was (re)created
    rlLast,         \* the outcome of the latest rateLimitMiddleware call
    gateLast,       \* the latest request of an endpoint: the stages it ran, its status
    attendees,      \* table public.attendees, in created_at order; the index is the id
    claimPc,        \* per claim request slot: "idle", "verified" (between the two queries), "done"
    claimReq,       \* per slot: the authenticated user and the validated body
    claimResp,      \* per slot: the response, and why it was given
    claimWins,      \* per record id: the number of claim requests answered with success
    lookupPc,       \* the lookup handler: "idle", "fuzzy" (before its second query), "done"
    lookupReq,      \* the validated name, and the table as the first query saw it
    lookupLast,     \* the lookup response, and how it was reached
    cachedGeminiModelName,  \* enrich-profile/route.ts: the cached fallback model, or NULL
    cachedGeminiModelAtMs,  \* enrich-profile/route.ts: when the cached resolution started
    resolver,       \* per caller of getSupportedGeminiModelName: where it is, what it saw
    lastOkStart,    \* start time of the latest completed resolution that listed a model, or -1
    enPc,           \* the enrich request: "idle", "search", "gen1", "listing", "gen2", "strict", "done"
    enReq,          \* the enrich request: what it has done so far
    enResp,         \* the enrich response
    liPc,           \* the find-external-profile handler: "idle", "search", "done"
    liReq,          \* its validated body
    liLast          \* its response, with the candidates it scored

rateVars == <<memoryStore, lastCleanup, rlReqs, rlLast>>
gateVars == <<gateLast>>
claimVars == <<claimPc, claimReq, claimResp, claimWins>>
lookupVars == <<lookupPc, lookupReq, lookupLast>>
cacheVars == <<cachedGeminiModelName, cachedGeminiModelAtMs, resolver, lastOkStart>>
linkedinVars == <<liPc, liReq, liLast>>
enrichVars == <<cachedGeminiModelName, cachedGeminiModelAtMs, resolver, lastOkStart,
                enPc, enReq, enResp>>
identVars == <<attendees, claimPc, claimReq, claimResp, claimWins, lookupPc, lookupReq, lookupLast>>

vars == <<now, memoryStore, lastCleanup, rlReqs, rlLast, gateLast,
          attendees, claimPc, claimReq, claimResp, claimWins,
          lookupPc, lookupReq, lookupLast,
          cachedGeminiModelName, cachedGeminiModelAtMs, resolver, lastOkStart,
          enPc, enReq, enResp,
          liPc, liReq, liLast>>

Min(a, b) == IF a < b THEN a ELSE b
Max(a, b) == IF a > b THEN a ELSE b

(* Math.ceil(n / d) for d > 0 and any integer n; JavaScript prints -0 as 0 *)
CeilDiv(n, d) == IF n >= 0 THEN (n + d - 1) \div d ELSE -((-n) \div d)

None == "none"

----------------------------------------------------------------------------
(* The clock *)

MaxWindows == 2
MaxElapsed == 1

WindowSec == 60
WindowMs == WindowSec * 1000

(* the instants at which a request can arrive: around every window boundary *)
Instants ==
    {q * WindowMs + j : q \in 0..MaxWindows, j \in {0, 1}}
        \cup {q * WindowMs - 1 : q \in 1..MaxWindows}

Tick ==
    /\ \E t \in Instants : t > now /\ now' = t
    /\ UNCHANGED <<rateVars, gateVars, enrichVars, linkedinVars, identVars>>

----------------------------------------------------------------------------
(* lib/rate-limit.ts, in-memory mode *)

CLEANUP_INTERVAL_MS == 5 * 60 * 1000

LimiterNames == {"standard", "strict", "expensive", "lookup", "admin"}

rateLimiters ==
    [n \in LimiterNames |->
        CASE n = "standard"  -> [limit |-> 30, windowSec |-> WindowSec]
          [] n = "strict"    -> [limit |-> 10, windowSec |-> WindowSec]
          [] n = "expensive" -> [limit |-> 5,  windowSec |-> WindowSec]
          [] n = "lookup"    -> [limit |-> 20, windowSec |-> WindowSec]
          [] n = "admin"     -> [limit |-> 60, windowSec |-> WindowSec]]

ClientIPs == {"ip1", "ip2"}

(* key = `${name}:${ip}` *)
RateKey(name, ip) == <<name, ip>>
RateKeys == {RateKey(n, ip) : n \in LimiterNames, ip \in ClientIPs}

NoEntry == [count |-> 0, resetAt |-> -1]
HasEntry(store, key) == store[key] # NoEntry

(* a reaping pass that deletes every entry *)
cleanupExpiredAll(store, last, t) ==
    IF t - last < CLEANUP_INTERVAL_MS
    THEN <<store, last>>
    ELSE <<[k \in DOMAIN store |-> NoEntry], t>>

(* cleanupExpired(): <<store, lastCleanup>> after the call at time t *)
cleanupExpired(store, last, t) ==
    IF t - last < CLEANUP_INTERVAL_MS
    THEN <<store, last>>
    ELSE <<[k \in DOMAIN store |->
              IF HasEntry(store, k) /\ store[k].resetAt < t THEN NoEntry ELSE store[k]],
           t>>

(* the comparison of count against limit that denies a request *)
OverLimitOff(count, limit) == count > limit
OverLimit(count, limit) == count >= limit

(* checkInMemory(key, limit, windowSec) at time t on the store left by cleanupExpired *)
checkInMemory(store, key, limit, windowSec, t) ==
    LET entry == store[key]
        windowMs == windowSec * 1000
    IN  IF ~HasEntry(store, key) \/ entry.resetAt < t
        THEN [store |-> [store EXCEPT ![key] = [count |-> 1, resetAt |-> t + windowMs]],
              allowed |-> TRUE, remaining |-> limit - 1, resetAt |-> t + windowMs]
        ELSE IF OverLimit(entry.count, limit)
        THEN [store |-> store, allowed |-> FALSE, remaining |-> 0, resetAt |-> entry.resetAt]
        ELSE [store |-> [store EXCEPT ![key].count = entry.count + 1],
              allowed |-> TRUE, remaining |-> limit - (entry.count + 1),
              resetAt |-> entry.resetAt]

(* buildBlockedResponse(limit, remaining, resetAt), Date.now() read at time t2 *)
buildBlockedResponse(limit, remaining, resetAt, t2) ==
    [status |-> 429, error |-> "Too many requests",
     retryAfter |-> CeilDiv(resetAt - t2, 1000)]

NoRateResult == [key |-> None, allowed |-> TRUE, status |-> 0, retryAfter |-> 0,
                 nth |-> 0, reaped |-> FALSE, at |-> 0]

(* the effect of rateLimiters[name](req) for a request from ip; el is the time *)
(* that passes between the two reads of Date.now()                            *)
RateLimitStep(name, ip, el) ==
    LET key == RateKey(name, ip)
        cfg == rateLimiters[name]
        cl == cleanupExpired(memoryStore, lastCleanup, now)
        res == checkInMemory(cl[1], key, cfg.limit, cfg.windowSec, now)
        fresh == res.allowed /\ res.store[key].count = 1
        nth == IF fresh THEN 1 ELSE rlReqs[key] + 1
        blocked == buildBlockedResponse(cfg.limit, res.remaining, res.resetAt, now + el)
    IN  /\ memoryStore' = res.store
        /\ lastCleanup' = cl[2]
        /\ rlReqs' = [rlReqs EXCEPT ![key] = nth]
        /\ now' = IF res.allowed THEN now ELSE now + el
        /\ rlLast' = [key |-> key, allowed |-> res.allowed,
                      status |-> IF res.allowed THEN 0 ELSE blocked.status,
                      retryAfter |-> IF res.allowed THEN 0 ELSE blocked.retryAfter,
                      nth |-> nth, reaped |-> cl[2] # lastCleanup,
                      at |-> IF res.allowed THEN now ELSE now + el]

MaxDenied == 2

SpecRateLimiters == {"expensive"}

(* the model lets a client send at most MaxDenied requests past its limit per window *)
ClientMaySend(name, ip) ==
    \/ rlReqs[RateKey(name, ip)] < rateLimiters[name].limit + MaxDenied
    \/ ~HasEntry(memoryStore, RateKey(name, ip))
    \/ memoryStore[RateKey(name, ip)].resetAt < now

(* a request reaches a limiter at one of the instants in S *)
rateLimitMiddlewareAt(name, ip, S) ==
    /\ ClientMaySend(name, ip)
    /\ \E el \in 0..MaxElapsed :
          /\ now + el \in S
          /\ RateLimitStep(name, ip, el)
    /\ UNCHANGED <<gateVars, enrichVars, linkedinVars, identVars>>

rateLimitMiddleware(name, ip) == rateLimitMiddlewareAt(name, ip, Instants)

----------------------------------------------------------------------------
(* The prologue of every route handler: the checks it runs, in source order, *)
(* before its own logic ("outbound": datastore, search or generation calls). *)

Endpoints ==
    {"enrich", "lookup", "claim", "lookupLinkedin", "deleteAccount",
     "cleanupOrphanAuth", "adminAttendees", "adminReorder"}

Prologue ==
    [ep \in Endpoints |->
        CASE ep = "enrich"            -> <<"body", "config", "outbound">>
          [] ep = "lookup"            -> <<"rateLimit", "config", "body", "outbound">>
          [] ep = "claim"             -> <<"rateLimit", "auth", "config", "body", "outbound">>
          [] ep = "lookupLinkedin"    -> <<"rateLimit", "auth", "body", "config", "outbound">>
          [] ep = "deleteAccount"     -> <<"rateLimit", "auth", "config", "outbound">>
          [] ep = "cleanupOrphanAuth" -> <<"rateLimit", "body", "config", "outbound">>
          [] ep = "adminAttendees"    -> <<"rateLimit", "auth", "config", "outbound">>
          [] ep = "adminReorder"      -> <<"rateLimit", "auth", "config", "body", "outbound">>]

(* the limiter profile each handler calls *)
EndpointLimiter ==
    [ep \in Endpoints |->
        CASE ep \in {"lookup", "lookupLinkedin"} -> "lookup"
          [] ep \in {"claim", "deleteAccount", "cleanupOrphanAuth"} -> "strict"
          [] ep \in {"adminAttendees", "adminReorder"} -> "admin"
          [] OTHER -> None]

FailStatus(stage) ==
    CASE stage = "auth" -> 401
      [] stage = "config" -> 500
      [] stage = "body" -> 400
      [] OTHER -> 502

(* the stages a request runs when it stops at stage `stop` (past the end: success) *)
RunTo(ep, stop) ==
    [endpoint |-> ep,
     ran |-> SubSeq(Prologue[ep], 1, Min(stop, Len(Prologue[ep]))),
     status |-> IF stop > Len(Prologue[ep]) THEN 200 ELSE FailStatus(Prologue[ep][stop]),
     retryAfter |-> 0]

(* a handler whose first statement is `await rateLimiters.<profile>(request)` *)
GatedRequest(ep, ip) ==
    /\ Prologue[ep][1] = "rateLimit"
    /\ ClientMaySend(EndpointLimiter[ep], ip)
    /\ \E el \in 0..MaxElapsed :
          /\ now + el \in Instants
          /\ RateLimitStep(EndpointLimiter[ep], ip, el)
    /\ IF rlLast'.allowed
       THEN \E stop \in 2..(Len(Prologue[ep]) + 1) : gateLast' = RunTo(ep, stop)
       ELSE gateLast' = [endpoint |-> ep, ran |-> <<"rateLimit">>,
                         status |-> rlLast'.status, retryAfter |-> rlLast'.retryAfter]
    /\ UNCHANGED <<enrichVars, linkedinVars, identVars>>

(* a handler that never calls a limiter *)
UngatedRequest(ep) ==
    /\ Prologue[ep][1] # "rateLimit"
    /\ \E stop \in 1..(Len(Prologue[ep]) + 1) : gateLast' = RunTo(ep, stop)
    /\ UNCHANGED <<now, rateVars, enrichVars, linkedinVars, identVars>>


----------------------------------------------------------------------------
(* Strings: a string is a sequence of one-character strings *)

Uppers == <<"A", "J", "R", "S">>
Lowers == <<"a", "j", "r", "s">>

toLowerChar(c) ==
    IF \E i \in 1..Len(Uppers) : Uppers[i] = c
    THEN Lowers[CHOOSE i \in 1..Len(Uppers) : Uppers[i] = c]
    ELSE c

(* String.prototype.toLowerCase *)
toLowerCase(s) == [i \in 1..Len(s) |-> toLowerChar(s[i])]

IsSpace(c) == c \in {" ", "\t"}

RECURSIVE trimStart(_)
trimStart(s) == IF s # <<>> /\ IsSpace(Head(s)) THEN trimStart(Tail(s)) ELSE s

RECURSIVE trimEnd(_)
trimEnd(s) ==
    IF s # <<>> /\ IsSpace(s[Len(s)]) THEN trimEnd(SubSeq(s, 1, Len(s) - 1)) ELSE s

(* String.prototype.trim *)
trim(s) == trimEnd(trimStart(s))

(* s.split(/\s+/): cur is the piece being read, inGap says the last character *)
(* was whitespace; an empty string splits into one empty piece                *)
RECURSIVE splitFrom(_, _, _)
splitFrom(s, cur, inGap) ==
    IF s = <<>> THEN <<cur>>
    ELSE IF IsSpace(Head(s))
         THEN IF inGap THEN splitFrom(Tail(s), cur, TRUE)
              ELSE <<cur>> \o splitFrom(Tail(s), <<>>, TRUE)
         ELSE splitFrom(Tail(s), Append(cur, Head(s)), FALSE)

splitWhitespace(s) == splitFrom(s, <<>>, FALSE)

(* String.prototype.substring(0, n) *)
substring0(s, n) == SubSeq(s, 1, Min(n, Len(s)))

(* escapeLikePattern: a backslash before every %, _ and backslash *)
RECURSIVE escapeLikePattern(_)
escapeLikePattern(s) ==
    IF s = <<>> THEN <<>>
    ELSE (IF Head(s) \in {"%", "_", "\\"} THEN <<"\\", Head(s)>> ELSE <<Head(s)>>)
            \o escapeLikePattern(Tail(s))

(* PostgreSQL `s ILIKE p`: % matches any run, _ any one character, a backslash *)
(* makes the next character literal; letters compare ignoring case             *)
RECURSIVE ilike(_, _)
ilike(s, p) ==
    IF p = <<>> THEN s = <<>>
    ELSE IF Head(p) = "%"
         THEN \E k \in 0..Len(s) : ilike(SubSeq(s, k + 1, Len(s)), Tail(p))
    ELSE IF Head(p) = "_"
         THEN s # <<>> /\ ilike(Tail(s), Tail(p))
    ELSE IF Head(p) = "\\" /\ Len(p) >= 2
         THEN s # <<>> /\ toLowerChar(Head(s)) = toLowerChar(p[2])
                /\ ilike(Tail(s), Tail(Tail(p)))
    ELSE s # <<>> /\ toLowerChar(Head(s)) = toLowerChar(Head(p))
            /\ ilike(Tail(s), Tail(p))

(* the names the model stores and queries *)
RobertSmith == <<"R", "o", "b", "e", "r", "t", " ", "S", "m", "i", "t", "h">>
RobSmith == <<"R", "o", "b", " ", "S", "m", "i", "t", "h">>
robertSmithLc == <<"r", "o", "b", "e", "r", "t", " ", "s", "m", "i", "t", "h">>
RobertJones == <<"R", "o", "b", "e", "r", "t", " ", "J", "o", "n", "e", "s">>
AlanSmith == <<"A", "l", "a", "n", " ", "S", "m", "i", "t", "h">>
RosaSmith == <<"R", "o", "s", "a", " ", " ", "S", "m", "i", "t", "h">>
RSmith == <<"R", " ", "S", "m", "i", "t", "h">>
Smith == <<"S", "m", "i", "t", "h">>
Ro_Smith == <<"R", "o", "_", " ", "S", "m", "i", "t", "h">>

----------------------------------------------------------------------------
(* The attendees table and the queries the routes send to it *)

NULL == "null"

Users == {"u1", "u2"}
EmailOf == [u \in Users |-> IF u = "u1" THEN "u1@mail" ELSE "u2@mail"]

(* a row inserted without an owner (admin seeding) *)
SeedRow(name) == [name |-> name, user_id |-> NULL, email |-> NULL]

(* .eq("id", id).is("user_id", null): the ids of the rows the filter selects *)
UnclaimedById(table, id) ==
    IF id \in 1..Len(table) /\ table[id].user_id = NULL THEN <<id>> ELSE <<>>

NoRow == 0

(* supabase-js .single(): the one selected row, or an error when the request   *)
(* failed or the filter selected no row or several                             *)
single(table, ids, failed) ==
    IF failed THEN [data |-> NoRow, error |-> "request failed"]
    ELSE IF Len(ids) = 1 THEN [data |-> ids[1], error |-> NULL]
    ELSE [data |-> NoRow, error |-> "PGRST116"]

(* the unique indexes attendees_user_id_unique and attendees.email UNIQUE *)
UniqueViolation(table, id, user, email) ==
    \E j \in 1..Len(table) :
        j # id /\ (table[j].user_id = user \/ table[j].email = email)

(* Step 2 of claim: exact match ignoring case, or the fuzzy rule *)
exactMatch(dbName, name) == toLowerCase(trim(dbName)) = toLowerCase(trim(name))

(* the fuzzy test with whole first names compared instead of two letters *)
fuzzyMatchWholeFirst(dbName, name) ==
    LET inputParts == splitWhitespace(trim(name))
        dbParts == splitWhitespace(trim(dbName))
    IN  /\ ~exactMatch(dbName, name)
        /\ Len(inputParts) >= 2 /\ Len(dbParts) >= 2
        /\ toLowerCase(inputParts[Len(inputParts)]) = toLowerCase(dbParts[Len(dbParts)])
        /\ toLowerCase(inputParts[1]) = toLowerCase(dbParts[1])

fuzzyMatch(dbName, name) ==
    LET inputParts == splitWhitespace(trim(name))
        dbParts == splitWhitespace(trim(dbName))
    IN  /\ ~exactMatch(dbName, name)
        /\ Len(inputParts) >= 2 /\ Len(dbParts) >= 2
        /\ LET inputFirst == toLowerCase(inputParts[1])
               inputLast == toLowerCase(inputParts[Len(inputParts)])
               dbFirst == toLowerCase(dbParts[1])
               dbLast == toLowerCase(dbParts[Len(dbParts)])
           IN  /\ inputLast = dbLast
               /\ Len(inputFirst) >= 2
               /\ Len(dbFirst) >= 2
               /\ substring0(inputFirst, 2) = substring0(dbFirst, 2)

claimEligible(dbName, name) == exactMatch(dbName, name) \/ fuzzyMatch(dbName, name)

----------------------------------------------------------------------------
(* POST /api/onboarding/claim, one handler run per request slot *)

Slots == {"q1", "q2"}

NoClaimReq == [user |-> NULL, attendeeId |-> 0, name |-> <<>>, email |-> NULL]
NoClaimResp == [status |-> 0, error |-> NULL, cause |-> NULL, attendeeId |-> 0]

ClaimResponse(status, error, cause, id) ==
    [status |-> status, error |-> error, cause |-> cause, attendeeId |-> id]

(* Steps 1 and 2: fetch the unclaimed row by id, verify the name *)
ClaimFetch(q, user, id, name, failed) ==
    /\ claimPc[q] = "idle"
    /\ LET r == single(attendees, UnclaimedById(attendees, id), failed)
           req == [user |-> user, attendeeId |-> id, name |-> name, email |-> EmailOf[user]]
           why == IF failed THEN "requestFailed"
                  ELSE IF id \notin 1..Len(attendees) THEN "unknownId"
                  ELSE "alreadyClaimed"
       IN  IF r.error # NULL \/ r.data = NoRow
           THEN /\ claimPc' = [claimPc EXCEPT ![q] = "done"]
                /\ claimResp' = [claimResp EXCEPT
                                   ![q] = ClaimResponse(404, "Profile not available", why, id)]
                /\ UNCHANGED claimReq
           ELSE IF ~claimEligible(attendees[r.data].name, name)
           THEN /\ claimPc' = [claimPc EXCEPT ![q] = "done"]
                /\ claimResp' = [claimResp EXCEPT
                                   ![q] = ClaimResponse(404, "Profile not available",
                                                        "nameMismatch", id)]
                /\ UNCHANGED claimReq
           ELSE /\ claimPc' = [claimPc EXCEPT ![q] = "verified"]
                /\ claimReq' = [claimReq EXCEPT ![q] = req]
                /\ UNCHANGED claimResp
    /\ UNCHANGED <<now, rateVars, gateVars, enrichVars, linkedinVars, attendees, claimWins, lookupVars>>

(* the WHERE clause of the claiming UPDATE *)
ClaimTargetsAnyOwner(table, id) == IF id \in 1..Len(table) THEN <<id>> ELSE <<>>
ClaimTargets(table, id) == UnclaimedById(table, id)

(* Step 3: UPDATE ... SET user_id, email, name WHERE id = ? AND user_id IS NULL *)
ClaimUpdate(q, failed) ==
    /\ claimPc[q] = "verified"
    /\ LET req == claimReq[q]
           id == req.attendeeId
           hit == ClaimTargets(attendees, id)
           rejected == hit # <<>> /\ UniqueViolation(attendees, id, req.user, req.email)
           applied == ~failed /\ hit # <<>> /\ ~rejected
           r == single(attendees, IF applied THEN hit ELSE <<>>, failed \/ rejected)
           why == IF failed THEN "requestFailed"
                  ELSE IF rejected THEN "uniqueViolation"
                  ELSE "alreadyClaimed"
       IN  /\ attendees' =
                IF applied
                THEN [attendees EXCEPT ![id] = [name |-> req.name, user_id |-> req.user,
                                                email |-> req.email]]
                ELSE attendees
           /\ claimResp' = [claimResp EXCEPT ![q] =
                IF r.error # NULL
                THEN ClaimResponse(500, "Database error", why, id)
                ELSE IF r.data = NoRow
                THEN ClaimResponse(404, "Profile not available", why, id)
                ELSE ClaimResponse(200, NULL, "claimed", id)]
           /\ claimWins' = IF r.error = NULL /\ r.data # NoRow
                           THEN [claimWins EXCEPT ![id] = @ + 1]
                           ELSE claimWins
    /\ claimPc' = [claimPc EXCEPT ![q] = "done"]
    /\ UNCHANGED <<now, rateVars, gateVars, enrichVars, linkedinVars, claimReq, lookupVars>>

(* the slot serves its next request *)
ClaimNext(q) ==
    /\ claimPc[q] = "done"
    /\ claimPc' = [claimPc EXCEPT ![q] = "idle"]
    /\ claimReq' = [claimReq EXCEPT ![q] = NoClaimReq]
    /\ claimResp' = [claimResp EXCEPT ![q] = NoClaimResp]
    /\ UNCHANGED <<now, rateVars, gateVars, enrichVars, linkedinVars, attendees, claimWins, lookupVars>>


----------------------------------------------------------------------------
(* POST /api/onboarding/lookup *)

FuzzyLimit == 10

(* .ilike("name", pattern).is("user_id", null).order("created_at", desc):     *)
(* the ids of the unclaimed rows among the first n whose name matches, newest *)
(* first                                                                      *)
RECURSIVE UnclaimedLike(_, _, _)
UnclaimedLike(table, pattern, n) ==
    IF n = 0 THEN <<>>
    ELSE (IF table[n].user_id = NULL /\ ilike(table[n].name, pattern)
          THEN <<n>> ELSE <<>>) \o UnclaimedLike(table, pattern, n - 1)

(* .limit(k) *)
limitTo(ids, k) == SubSeq(ids, 1, Min(k, Len(ids)))

(* the callback with the comparison of the first two letters left out *)
candidateMatchesAnyFirst(candidateName, inputFirst) ==
    LET candidateParts == splitWhitespace(trim(candidateName))
    IN  /\ Len(candidateParts) >= 2
        /\ Len(toLowerCase(candidateParts[1])) >= 2

(* the callback of candidates.find *)
candidateMatches(candidateName, inputFirst) ==
    LET candidateParts == splitWhitespace(trim(candidateName))
    IN  /\ Len(candidateParts) >= 2
        /\ Len(toLowerCase(candidateParts[1])) >= 2
        /\ substring0(toLowerCase(candidateParts[1]), 2) = substring0(inputFirst, 2)

(* Array.prototype.find over the candidate ids: the first match, or NoRow *)
RECURSIVE findCandidate(_, _, _)
findCandidate(table, ids, inputFirst) ==
    IF ids = <<>> THEN NoRow
    ELSE IF candidateMatches(table[Head(ids)].name, inputFirst) THEN Head(ids)
    ELSE findCandidate(table, Tail(ids), inputFirst)

NoLookupReq == [name |-> <<>>, seen |-> <<>>]
NoLookupResp == [status |-> 0, found |-> FALSE, attendeeId |-> NoRow, via |-> NULL,
                 quiet |-> TRUE, fuzzyFailed |-> FALSE]

LookupResponse(status, found, id, via, quiet, fuzzyFailed) ==
    [status |-> status, found |-> found, attendeeId |-> id, via |-> via,
     quiet |-> quiet, fuzzyFailed |-> fuzzyFailed]

(* Step 1: the exact query, and the decision whether to run the fuzzy one *)
LookupExact(name, failed) ==
    /\ lookupPc = "idle"
    /\ lookupReq' = [name |-> name, seen |-> attendees]
    /\ LET found == limitTo(UnclaimedLike(attendees, escapeLikePattern(name), Len(attendees)), 1)
           nameParts == splitWhitespace(trim(name))
       IN  IF failed
           THEN /\ lookupPc' = "done"
                /\ lookupLast' = LookupResponse(500, FALSE, NoRow, NULL, TRUE, FALSE)
           ELSE IF found # <<>>
           THEN /\ lookupPc' = "done"
                /\ lookupLast' = LookupResponse(200, TRUE, found[1], "exact", TRUE, FALSE)
           ELSE IF Len(nameParts) >= 2 /\ Len(toLowerCase(nameParts[1])) >= 2
           THEN /\ lookupPc' = "fuzzy"
                /\ UNCHANGED lookupLast
           ELSE /\ lookupPc' = "done"
                /\ lookupLast' = LookupResponse(200, FALSE, NoRow, NULL, TRUE, FALSE)
    /\ UNCHANGED <<now, rateVars, gateVars, enrichVars, linkedinVars, attendees, claimVars>>

(* Step 2: the fuzzy query on the last name, then the first two letters *)
LookupFuzzy(failed) ==
    /\ lookupPc = "fuzzy"
    /\ LET nameParts == splitWhitespace(trim(lookupReq.name))
           inputFirst == toLowerCase(nameParts[1])
           inputLast == toLowerCase(nameParts[Len(nameParts)])
           candidates == limitTo(UnclaimedLike(attendees,
                                   <<"%", " ">> \o escapeLikePattern(inputLast),
                                   Len(attendees)), FuzzyLimit)
           match == findCandidate(attendees, candidates, inputFirst)
           quiet == lookupReq.seen = attendees
       IN  lookupLast' =
              IF failed THEN LookupResponse(200, FALSE, NoRow, NULL, quiet, TRUE)
              ELSE IF match # NoRow THEN LookupResponse(200, TRUE, match, "fuzzy", quiet, FALSE)
              ELSE LookupResponse(200, FALSE, NoRow, NULL, quiet, FALSE)
    /\ lookupPc' = "done"
    /\ UNCHANGED <<now, rateVars, gateVars, enrichVars, linkedinVars, attendees, claimVars, lookupReq>>

(* the lookup route without the fallback: one query, the name as the pattern *)
LookupExactOnly(name, failed) ==
    /\ lookupPc = "idle"
    /\ lookupReq' = [name |-> name, seen |-> attendees]
    /\ LET found == limitTo(UnclaimedLike(attendees, name, Len(attendees)), 1)
       IN  lookupLast' =
              IF failed THEN LookupResponse(500, FALSE, NoRow, NULL, TRUE, FALSE)
              ELSE IF found # <<>> THEN LookupResponse(200, TRUE, found[1], "exactOnly", TRUE, FALSE)
              ELSE LookupResponse(200, FALSE, NoRow, "exactOnly", TRUE, FALSE)
    /\ lookupPc' = "done"
    /\ UNCHANGED <<now, rateVars, gateVars, enrichVars, linkedinVars, attendees, claimVars>>

LookupNext ==
    /\ lookupPc = "done"
    /\ lookupPc' = "idle"
    /\ lookupReq' = NoLookupReq
    /\ lookupLast' = NoLookupResp
    /\ UNCHANGED <<now, rateVars, gateVars, enrichVars, linkedinVars, attendees, claimVars>>

(* POST /api/admin/attendees: the insert of a row without an owner *)
AdminInsert(name) ==
    /\ lookupPc # "done"
    /\ attendees' = Append(attendees, SeedRow(name))
    /\ UNCHANGED <<now, rateVars, gateVars, enrichVars, linkedinVars, claimVars, lookupVars>>

(* the registration form: upsert of the caller's own row, onConflict user_id *)
RegisterProfile(user, name) ==
    /\ lookupPc # "done"
    /\ LET own == {j \in 1..Len(attendees) : attendees[j].user_id = user}
           row == [name |-> name, user_id |-> user, email |-> EmailOf[user]]
       IN  attendees' =
              IF own # {}
              THEN [attendees EXCEPT ![CHOOSE j \in own : TRUE] = row]
              ELSE IF \E j \in 1..Len(attendees) : attendees[j].email = row.email
              THEN attendees
              ELSE Append(attendees, row)
    /\ UNCHANGED <<now, rateVars, gateVars, enrichVars, linkedinVars, claimVars, lookupVars>>


----------------------------------------------------------------------------
(* app/api/enrich-profile/route.ts: the fallback model resolver *)

TTL_MS == 10 * 60 * 1000

Callers == {"e1", "e2"}

(* a model name: with or without the "models/" prefix; "" is a missing name *)
ModelName(prefixed, short) == [prefixed |-> prefixed, short |-> short]
Model(name, methods) == [name |-> name, supportedGenerationMethods |-> methods]

FlashModel == Model(ModelName(TRUE, "gemini-1.5-flash"), {"generateContent", "countTokens"})
ProModel == Model(ModelName(TRUE, "gemini-pro"), {"generateContent"})
TunedModel == Model(ModelName(FALSE, "tuned-x"), {"generateContent"})
EmbedModel == Model(ModelName(TRUE, "embedding-001"), {"embedContent"})
NamelessModel == Model(ModelName(FALSE, ""), {"generateContent"})

preferred ==
    << "gemini-3-flash-preview", "gemini-3.0-flash-preview", "gemini-3-flash-preview-latest",
       "gemini-1.5-flash", "gemini-1.5-flash-latest", "gemini-1.5-pro", "gemini-1.0-pro",
       "gemini-pro" >>

(* the listing call: it fails, or it answers with the provider's models *)
ListingFailed == [ok |-> FALSE, models |-> <<>>]
Listing(models) == [ok |-> TRUE, models |-> models]
Listings ==
    { ListingFailed, Listing(<<>>), Listing(<<EmbedModel, NamelessModel>>),
      Listing(<<ProModel, EmbedModel, FlashModel>>), Listing(<<EmbedModel, TunedModel, ProModel>>),
      Listing(<<TunedModel>>) }

(* a filter that keeps every named model *)
supportsGenerateContentNamedOnly(models) ==
    LET named(m) == m.name.short # ""
    IN  SelectSeq(models, named)

supportsGenerateContent(models) ==
    LET named(m) == m.name.short # ""
        capable(m) == "generateContent" \in m.supportedGenerationMethods
    IN  SelectSeq(SelectSeq(models, named), capable)

NoModelName == ModelName(FALSE, "")

(* a choice that takes the provider's first capable model whatever the preference list says *)
pickedFirstCapable(models) ==
    IF supportsGenerateContent(models) # <<>>
    THEN supportsGenerateContent(models)[1].name
    ELSE NoModelName

(* preferred.find(...) || supportsGenerateContent[0]?.name, or no name *)
picked(models) ==
    LET able == supportsGenerateContent(models)
        offered(i) == \E j \in 1..Len(able) :
                          able[j].name.prefixed /\ able[j].name.short = preferred[i]
        found == {i \in 1..Len(preferred) : offered(i)}
    IN  IF found # {}
        THEN ModelName(TRUE, preferred[CHOOSE i \in found : \A k \in found : i <= k])
        ELSE IF able # <<>> THEN able[1].name
        ELSE NoModelName

(* the library wants the short name without "models/" *)
normalized(name) == name.short

NoResolution ==
    [pc |-> "idle", now |-> 0, hit |-> FALSE, seenName |-> NULL, seenAtMs |-> 0,
     hadOk |-> FALSE, recentOk |-> FALSE, out |-> NULL, listing |-> ListingFailed]

(* the cache test with the boundary moved by one *)
cacheFreshOff(t) ==
    cachedGeminiModelName # NULL /\ t - cachedGeminiModelAtMs <= TTL_MS

cacheFresh(t) ==
    cachedGeminiModelName # NULL /\ t - cachedGeminiModelAtMs < TTL_MS

(* getSupportedGeminiModelName up to its first await: the cache test *)
ResolverEnter(c) ==
    /\ resolver' = [resolver EXCEPT ![c] =
          [pc |-> IF cacheFresh(now) THEN "returned" ELSE "listing",
           now |-> now,
           hit |-> cacheFresh(now),
           seenName |-> cachedGeminiModelName,
           seenAtMs |-> cachedGeminiModelAtMs,
           hadOk |-> lastOkStart >= 0,
           recentOk |-> lastOkStart >= 0 /\ now - lastOkStart < TTL_MS,
           out |-> IF cacheFresh(now) THEN cachedGeminiModelName ELSE NULL,
           listing |-> ListingFailed]]
    /\ UNCHANGED <<cachedGeminiModelName, cachedGeminiModelAtMs, lastOkStart>>

(* a resolver that stores the name and leaves the timestamp of an earlier write *)
ResolverListedNameOnly(c, listing) ==
    LET choice == IF listing.ok THEN picked(listing.models) ELSE NoModelName
    IN  IF choice = NoModelName
        THEN /\ resolver' = [resolver EXCEPT ![c].pc = "threw", ![c].listing = listing]
             /\ UNCHANGED <<cachedGeminiModelName, cachedGeminiModelAtMs, lastOkStart>>
        ELSE /\ resolver' = [resolver EXCEPT ![c].pc = "returned", ![c].out = normalized(choice),
                                             ![c].listing = listing]
             /\ cachedGeminiModelName' = normalized(choice)
             /\ cachedGeminiModelAtMs' =
                    IF cachedGeminiModelName = NULL THEN resolver[c].now ELSE cachedGeminiModelAtMs
             /\ lastOkStart' = Max(lastOkStart, resolver[c].now)

(* getSupportedGeminiModelName after the listing call has answered *)
ResolverListed(c, listing) ==
    LET choice == IF listing.ok THEN picked(listing.models) ELSE NoModelName
    IN  IF choice = NoModelName
        THEN /\ resolver' = [resolver EXCEPT ![c].pc = "threw", ![c].listing = listing]
             /\ UNCHANGED <<cachedGeminiModelName, cachedGeminiModelAtMs, lastOkStart>>
        ELSE /\ resolver' = [resolver EXCEPT ![c].pc = "returned", ![c].out = normalized(choice),
                                             ![c].listing = listing]
             /\ cachedGeminiModelName' = normalized(choice)
             /\ cachedGeminiModelAtMs' = resolver[c].now
             /\ lastOkStart' = Max(lastOkStart, resolver[c].now)

(* a request that needs the fallback model calls the resolver *)
FallbackResolution(c) ==
    /\ resolver[c].pc # "listing"
    /\ ResolverEnter(c)
    /\ UNCHANGED <<now, rateVars, gateVars, identVars, linkedinVars, enPc, enReq, enResp>>

FallbackListed(c, listing) ==
    /\ resolver[c].pc = "listing"
    /\ ResolverListed(c, listing)
    /\ UNCHANGED <<now, rateVars, gateVars, identVars, linkedinVars, enPc, enReq, enResp>>

(* time passes, to one of the instants in S *)
Elapse(S) ==
    /\ \E t \in S : t > now /\ now' = t
    /\ UNCHANGED <<rateVars, gateVars, enrichVars, linkedinVars, identVars>>


----------------------------------------------------------------------------
(* app/api/enrich-profile/route.ts: POST *)

MaxList == 4
MaxResults == 2

SentencePool == <<"s1", "s2", "s3", "s4", "s5">>
(* one approved subcategory, a main category, a foreign word, two more subcategories *)
TagPool == <<"Public Relations", "Brand Communications", "Crypto", "Analytics", "Coaching">>

(* a field of the parsed object: absent, present and not a list, or a list *)
Absent == [present |-> FALSE, isArray |-> FALSE, items |-> <<>>]
NonList == [present |-> TRUE, isArray |-> FALSE, items |-> <<>>]
ListOf(items) == [present |-> TRUE, isArray |-> TRUE, items |-> items]
FieldValues(pool) == {Absent, NonList} \cup {ListOf(SubSeq(pool, 1, n)) : n \in 0..MaxList}

(* what a JSON document denotes: null, a scalar or list, or an object *)
JsonNull == [kind |-> "null", summary |-> Absent, industry_tags |-> Absent]
JsonScalar == [kind |-> "scalar", summary |-> Absent, industry_tags |-> Absent]
JsonObject(summary, tags) == [kind |-> "object", summary |-> summary, industry_tags |-> tags]
JsonValues ==
    {JsonNull, JsonScalar}
        \cup {JsonObject(sm, tg) : sm \in FieldValues(SentencePool), tg \in FieldValues(TagPool)}

(* a text of the generation service: a JSON document, possibly damaged, on *)
(* its own, inside a ```json fence, or inside a sentence                    *)
Wraps == {"bare", "fenced", "prose"}
Defects == {"none", "smartQuotes", "trailingComma", "truncated"}
Texts == [wrap : Wraps, defect : Defects, value : JsonValues]

(* text.match(/\{[\s\S]*\}/): from the first brace to the last one *)
jsonMatch(text) == text.value.kind = "object" /\ text.defect # "truncated"
(* text.match(/```json[\s\S]*?```/i) *)
fencedMatch(text) == text.wrap = "fenced"

(* the string handed to JSON.parse: whole is FALSE when prose is still around it *)
candidate(text) ==
    [whole |-> fencedMatch(text) \/ jsonMatch(text) \/ text.wrap = "bare",
     defect |-> text.defect, value |-> text.value]

(* curly quotes to straight ones, commas before a closing bracket removed *)
sanitized(cand) ==
    [cand EXCEPT !.defect = IF @ \in {"smartQuotes", "trailingComma"} THEN "none" ELSE @]

(* JSON.parse: throws unless the string is one well-formed document *)
JSONParses(cand) == cand.whole /\ cand.defect = "none"

(* how the text of the strict re-issue arrived: its wrapping and its defect *)
StrictShape(text) ==
    IF text.value.kind = "object" THEN text.wrap \o "/" \o text.defect \o "/object"
    ELSE text.wrap \o "/" \o text.defect \o "/other"

(* strictText = text().trim(), parsed as it is *)
strictCandidate(text) ==
    [whole |-> text.wrap = "bare", defect |-> text.defect, value |-> text.value]

Step4GenericSummary ==
    <<"Professional in their field", "Experienced industry expert", "Open to networking">>
Step4GenericTags == <<"Business", "Professional", "Networking">>
(* the Step 4 replacements in place of the default result *)
DefaultResponseStep4 == JsonObject(ListOf(Step4GenericSummary), ListOf(Step4GenericTags))

DefaultResponse ==
    JsonObject(ListOf(<<"Experienced professional in their field",
                        "Focused on collaboration and industry impact",
                        "Open to meaningful networking conversations">>),
               ListOf(<<"Brand Communications", "Data and Technology",
                        "Sales, Partnerships and Merchandise">>))

(* a cut that keeps the last three *)
sliceLast3(items) == SubSeq(items, Max(1, Len(items) - 2), Len(items))

(* Array.prototype.slice(0, 3) *)
slice03(items) == SubSeq(items, 1, Min(3, Len(items)))

(* generation outcomes: a text, or a thrown error *)
GenErrors == {"status404", "notFoundMessage", "notSupportedMessage", "otherError", "noText"}

(* the text an upstream service puts into its error *)
UpstreamTexts == {"upstream text 1", "upstream text 2"}
(* `ListModels failed: ${res.status} ${res.statusText} - ${text}` *)
ListModelsFailureText == "ListModels failed: status, statusText and body"

(* a test that sends every error to the fallback *)
isModelIssueAny(err) == err \in GenErrors

(* status === 404 || /not found|not supported for generateContent/i.test(message) *)
isModelIssue(err) == err \in {"status404", "notFoundMessage", "notSupportedMessage"}

(* searchResults.results.length after the search try/catch *)
sourcesFoundKept(outcome, n) == n

sourcesFound(outcome, n) == IF outcome = "ok" THEN n ELSE 0
SearchFailures == {"notOk", "threw"}

NoEnrichReq ==
    [gotText |-> FALSE, searchCalls |-> 0, listCalls |-> 0, genCalls |-> 0,
     sources |-> 0, tavilyError |-> FALSE, path |-> NULL, raw |-> JsonScalar,
     body |-> NULL, geminiKey |-> TRUE, search |-> NULL, firstError |-> NULL,
     fallbackCalls |-> 0, strictCalls |-> 0, strictText |-> NULL]
NoEnrichResp ==
    [status |-> 0, summary |-> <<>>, industry_tags |-> <<>>, sources_found |-> 0,
     error |-> NULL, carried |-> NULL]

(* an error response whose text is fixed in the handler *)
EnrichError(status, error) ==
    [status |-> status, summary |-> <<>>, industry_tags |-> <<>>, sources_found |-> 0,
     error |-> error, carried |-> NULL]

(* an error response whose text carries the message of the caught exception *)
EnrichErrorWith(status, error, message) ==
    [status |-> status, summary |-> <<>>, industry_tags |-> <<>>, sources_found |-> 0,
     error |-> error, carried |-> message]

(* Step 4 and the response; reading a field of null throws into the outer catch *)
Step4(aiResponse, req) ==
    IF aiResponse.kind = "null"
    THEN EnrichErrorWith(500, "error.message", "Cannot read properties of null")
    ELSE [status |-> 200,
          summary |-> IF aiResponse.summary.isArray
                      THEN slice03(aiResponse.summary.items)
                      ELSE Step4GenericSummary,
          industry_tags |-> IF aiResponse.industry_tags.isArray
                            THEN slice03(aiResponse.industry_tags.items)
                            ELSE Step4GenericTags,
          sources_found |-> req.sources,
          error |-> NULL, carried |-> NULL]

EnrichRest == <<now, rateVars, gateVars, identVars, linkedinVars>>

(* the subcategories the prompt lists as approved *)
ApprovedSubcategories ==
    { "Fan Experience", "Brand Strategy", "Community Engagement",
      "Public Relations", "Communications", "Content",
      "Journalism", "Media Operations", "Broadcast",
      "Finance", "Real Estate", "Consulting",
      "Talent Representation", "Athlete Relations", "Negotiations",
      "Sales", "Partnerships", "Merchandise",
      "Data", "Analytics", "Technology",
      "Team Operations", "Coaching", "Player Development" }

(* a name check that lets a whitespace-only name through *)
EnrichNamelessBodiesUntrimmed == {"noName", "emptyName"}

(* the bodies a request can carry, by what the name check sees *)
EnrichNamelessBodies == {"noName", "emptyName", "blankName"}
EnrichBodies == {"invalid", "noName", "emptyName", "blankName", "nonStringName", "named"}

(* body, name and credential checks; then the search call, if it can be made *)
EnrichStart(body, geminiKey, tavilyKey) ==
    /\ enPc = "idle"
    /\ LET req == [NoEnrichReq EXCEPT !.body = body, !.geminiKey = geminiKey]
       IN  IF body = "invalid"
           THEN enPc' = "done" /\ enReq' = req
                /\ enResp' = EnrichErrorWith(500, "error.message", "Unexpected token in JSON")
           ELSE IF body \in EnrichNamelessBodies
           THEN enPc' = "done" /\ enReq' = req
                /\ enResp' = EnrichError(400, "Name is required")
           ELSE IF body = "nonStringName"
           THEN enPc' = "done" /\ enReq' = req
                /\ enResp' = EnrichErrorWith(500, "error.message", "name.trim is not a function")
           ELSE IF ~geminiKey
           THEN enPc' = "done" /\ enReq' = req
                /\ enResp' = EnrichError(500, "Missing DEFAULT_GEMINI_API_KEY server env var")
           ELSE IF ~tavilyKey
           THEN enPc' = "gen1" /\ enResp' = NoEnrichResp
                /\ enReq' = [req EXCEPT !.tavilyError = TRUE, !.search = "noKey",
                                        !.genCalls = 1]
           ELSE enPc' = "search" /\ enResp' = NoEnrichResp
                /\ enReq' = [req EXCEPT !.searchCalls = 1]
    /\ UNCHANGED <<EnrichRest, cacheVars>>

(* the search call answers: results, or a failure that is only recorded *)
EnrichSearched(outcome, n) ==
    /\ enPc = "search"
    /\ enPc' = "gen1"
    /\ enReq' = [enReq EXCEPT !.sources = sourcesFound(outcome, n),
                              !.tavilyError = (outcome \in SearchFailures),
                              !.search = outcome,
                              !.genCalls = 1]
    /\ UNCHANGED <<EnrichRest, cacheVars, enResp>>

(* the text of a generation call goes through the parse tiers *)
EnrichParse(text) ==
    LET cand == candidate(text)
        req == [enReq EXCEPT !.gotText = TRUE]
    IN  IF JSONParses(cand) \/ JSONParses(sanitized(cand))
        THEN /\ enPc' = "done"
             /\ enReq' = [req EXCEPT !.path = "primary", !.raw = cand.value]
             /\ enResp' = Step4(cand.value, req)
        ELSE /\ enPc' = "strict"
             /\ enReq' = [req EXCEPT !.genCalls = @ + 1, !.strictCalls = @ + 1]
             /\ UNCHANGED enResp

(* catch (geminiError): `Gemini error: ${geminiError.message}` *)
EnrichFail502(req, message) ==
    /\ enPc' = "done"
    /\ enResp' = EnrichErrorWith(502, "Gemini error: ", message)
    /\ enReq' = req

(* the first generation call answers *)
EnrichGen1Text(text) ==
    /\ enPc = "gen1"
    /\ EnrichParse(text)
    /\ UNCHANGED <<EnrichRest, cacheVars>>

EnrichGen1Error(err, message) ==
    /\ enPc = "gen1"
    /\ LET req == [enReq EXCEPT !.firstError = err]
       IN  IF ~isModelIssue(err)
           THEN EnrichFail502(req, message) /\ UNCHANGED cacheVars
           ELSE /\ ResolverEnter("e1")
                /\ IF cacheFresh(now)
                   THEN /\ enPc' = "gen2"
                        /\ enReq' = [req EXCEPT !.genCalls = @ + 1, !.fallbackCalls = @ + 1]
                   ELSE /\ enPc' = "listing"
                        /\ enReq' = [req EXCEPT !.listCalls = @ + 1]
                /\ UNCHANGED enResp
    /\ UNCHANGED EnrichRest

(* the listing call answers *)
EnrichListed(listing) ==
    /\ enPc = "listing"
    /\ ResolverListed("e1", listing)
    /\ IF resolver'["e1"].pc = "threw"
       THEN EnrichFail502(enReq, ListModelsFailureText)
       ELSE /\ enPc' = "gen2"
            /\ enReq' = [enReq EXCEPT !.genCalls = @ + 1, !.fallbackCalls = @ + 1]
            /\ UNCHANGED enResp
    /\ UNCHANGED EnrichRest

(* the generation call on the fallback model answers *)
EnrichGen2Text(text) ==
    /\ enPc = "gen2"
    /\ EnrichParse(text)
    /\ UNCHANGED <<EnrichRest, cacheVars>>

EnrichGen2Error(err, message) ==
    /\ enPc = "gen2"
    /\ EnrichFail502(enReq, message)
    /\ UNCHANGED <<EnrichRest, cacheVars>>

(* a handler that re-issues the strict call again while its text does not parse *)
EnrichStrictTextAgain(text) ==
    /\ enPc = "strict"
    /\ LET cand == strictCandidate(text)
       IN  IF JSONParses(cand)
           THEN /\ enReq' = [enReq EXCEPT !.path = "strict", !.raw = cand.value,
                                          !.strictText = StrictShape(text)]
                /\ enResp' = Step4(cand.value, enReq)
                /\ enPc' = "done"
           ELSE /\ enReq.genCalls < 5
                /\ enReq' = [enReq EXCEPT !.genCalls = @ + 1, !.strictCalls = @ + 1]
                /\ UNCHANGED <<enResp, enPc>>
    /\ UNCHANGED <<EnrichRest, cacheVars>>

(* the strict re-issue answers *)
EnrichStrictText(text) ==
    /\ enPc = "strict"
    /\ LET cand == strictCandidate(text)
           aiResponse == IF JSONParses(cand) THEN cand.value ELSE DefaultResponse
       IN  /\ enReq' = [enReq EXCEPT !.path = IF JSONParses(cand) THEN "strict" ELSE "default",
                                     !.raw = aiResponse,
                                     !.strictText = StrictShape(text)]
           /\ enResp' = Step4(aiResponse, enReq)
    /\ enPc' = "done"
    /\ UNCHANGED <<EnrichRest, cacheVars>>

EnrichStrictError(err, message) ==
    /\ enPc = "strict"
    /\ EnrichFail502(enReq, message)
    /\ UNCHANGED <<EnrichRest, cacheVars>>

EnrichNext ==
    /\ enPc = "done"
    /\ enPc' = "idle"
    /\ enReq' = NoEnrichReq
    /\ enResp' = NoEnrichResp
    /\ UNCHANGED <<EnrichRest, cacheVars>>


----------------------------------------------------------------------------
(* app/api/lookup-linkedin/route.ts: POST *)

MaxHits == 3

(* String.prototype.includes *)
includes(text, part) ==
    \E i \in 0..(Len(text) - Len(part)) : SubSeq(text, i + 1, i + Len(part)) = part

ProfilePath == <<"l", "i", "n", "k", "e", "d", "i", "n", ".", "c", "o", "m", "/", "i", "n", "/">>
UrlRob == ProfilePath \o <<"r", "o", "b">>
UrlAl == ProfilePath \o <<"a", "l">>
UrlCompany == <<"l", "i", "n", "k", "e", "d", "i", "n", ".", "c", "o", "m", "/", "c", "o", "m", "p", "a", "n", "y", "/", "a", "j", "a", "x">>

SalesRep == <<"S", "a", "l", "e", "s", " ", "R", "e", "p">>
AjaxSports == <<"A", "j", "a", "x", " ", "S", "p", "o", "r", "t", "s">>
Ajax == <<"A", "j", "a", "x">>
SalesRepAjaxSports == SalesRep \o <<" ">> \o AjaxSports
SalesRepAjax == SalesRep \o <<" ">> \o Ajax

(* an optional body field after validation: absent, or the sanitized string *)
NotGiven == [given |-> FALSE, text |-> <<>>]
Given(text) == [given |-> TRUE, text |-> text]
truthy(field) == field.given /\ field.text # <<>>

(* a search hit; a missing url, title or content is read as '' *)
Hit(url, title, content) == [url |-> url, title |-> title, content |-> content]
HitPool ==
    { Hit(UrlRob, RobertSmith, SalesRep),
      Hit(UrlAl, RobertSmith, SalesRepAjaxSports),
      Hit(UrlRob, RobSmith, SalesRepAjax),
      Hit(UrlAl, AlanSmith, <<>>),
      Hit(UrlCompany, RobertSmith, SalesRepAjaxSports),
      Hit(<<>>, RobertSmith, SalesRepAjaxSports) }

RECURSIVE SeqsUpTo(_, _)
SeqsUpTo(S, n) ==
    IF n = 0 THEN {<<>>}
    ELSE LET shorter == SeqsUpTo(S, n - 1)
         IN  shorter \cup {Append(q, x) : q \in shorter, x \in S}

(* the parts longer than 2 characters that the text contains, counted with repeats *)
partsFound(parts, combined) ==
    Cardinality({i \in 1..Len(parts) : Len(parts[i]) > 2 /\ includes(combined, parts[i])})

(* the company rule with the bonus for the full string left out *)
companyScorePartsOnly(company, combined) ==
    IF truthy(company)
    THEN 3 * partsFound(splitWhitespace(toLowerCase(company.text)), combined)
    ELSE 0

(* lines 125-138: the full company string, else its parts *)
companyScore(company, combined) ==
    IF truthy(company)
    THEN LET companyLower == toLowerCase(company.text)
         IN  IF includes(combined, companyLower)
             THEN 15
             ELSE 3 * partsFound(splitWhitespace(companyLower), combined)
    ELSE 0

(* `${title} ${content}`, both lower-cased *)
combinedText(hit) == toLowerCase(hit.title) \o <<" ">> \o toLowerCase(hit.content)

(* the callback of linkedInResults.map *)
scoreOf(hit, req) ==
    LET combined == combinedText(hit)
        nameParts == splitWhitespace(toLowerCase(req.name))
    IN  10 * partsFound(nameParts, combined)
          + (IF truthy(req.job_title)
             THEN 5 * partsFound(splitWhitespace(toLowerCase(req.job_title.text)), combined)
             ELSE 0)
          + companyScore(req.company, combined)

(* the filter on the personal-profile path *)
linkedInResults(results) ==
    LET personal(hit) == includes(hit.url, ProfilePath)
    IN  SelectSeq(results, personal)

scoredResults(results, req) ==
    LET kept == linkedInResults(results)
    IN  [i \in 1..Len(kept) |-> [hit |-> kept[i], score |-> scoreOf(kept[i], req)]]

(* Array.prototype.sort((a, b) => b.score - a.score): stable, highest first *)
(* an insertion that puts a later element before the earlier ones of equal score *)
RECURSIVE insertByScoreTiesLast(_, _)
insertByScoreTiesLast(sorted, x) ==
    IF sorted = <<>> THEN <<x>>
    ELSE IF Head(sorted).score > x.score
         THEN <<Head(sorted)>> \o insertByScoreTiesLast(Tail(sorted), x)
         ELSE <<x>> \o sorted

RECURSIVE insertByScore(_, _)
insertByScore(sorted, x) ==
    IF sorted = <<>> THEN <<x>>
    ELSE IF Head(sorted).score >= x.score
         THEN <<Head(sorted)>> \o insertByScore(Tail(sorted), x)
         ELSE <<x>> \o sorted

RECURSIVE sortByScore(_)
sortByScore(scored) ==
    IF scored = <<>> THEN <<>>
    ELSE insertByScore(sortByScore(SubSeq(scored, 1, Len(scored) - 1)), scored[Len(scored)])

NoLinkedinReq == [name |-> <<>>, job_title |-> NotGiven, company |-> NotGiven]
NoLinkedinResp ==
    [status |-> 0, success |-> FALSE, urlIsNull |-> TRUE, linkedin_url |-> <<>>,
     error |-> NULL, results |-> <<>>, scored |-> <<>>, searchCalls |-> 0]

LinkedinError(status, error, calls) ==
    [NoLinkedinResp EXCEPT !.status = status, !.error = error, !.searchCalls = calls]

(* limiter, session, body and configuration checks; then the search call is sent *)
LinkedinStart(limited, authed, req, valid, tavilyKey) ==
    /\ liPc = "idle"
    /\ IF limited
       THEN liPc' = "done" /\ liReq' = NoLinkedinReq
            /\ liLast' = LinkedinError(429, "Too many requests", 0)
       ELSE IF ~authed
       THEN liPc' = "done" /\ liReq' = NoLinkedinReq
            /\ liLast' = LinkedinError(401, "Unauthorized", 0)
       ELSE IF ~valid
       THEN liPc' = "done" /\ liReq' = NoLinkedinReq
            /\ liLast' = LinkedinError(400, "Validation failed", 0)
       ELSE IF ~tavilyKey
       THEN liPc' = "done" /\ liReq' = req
            /\ liLast' = LinkedinError(500, "LinkedIn lookup is not configured", 0)
       ELSE liPc' = "search" /\ liReq' = req
            /\ liLast' = [NoLinkedinResp EXCEPT !.searchCalls = 1]
    /\ UNCHANGED <<now, rateVars, gateVars, enrichVars, identVars>>

(* the search call answers: it failed, or it lists its hits *)
LinkedinSearched(ok, results) ==
    /\ liPc = "search"
    /\ liPc' = "done"
    /\ LET scored == scoredResults(results, liReq)
           bestMatch == sortByScore(scored)[1]
       IN  liLast' =
              IF ~ok THEN LinkedinError(500, "Failed to lookup LinkedIn", 1)
              ELSE IF Len(linkedInResults(results)) = 0
              THEN [NoLinkedinResp EXCEPT !.status = 200, !.success = TRUE,
                                          !.results = results, !.searchCalls = 1]
              ELSE [NoLinkedinResp EXCEPT !.status = 200, !.success = TRUE,
                                          !.urlIsNull = FALSE,
                                          !.linkedin_url = bestMatch.hit.url,
                                          !.results = results, !.scored = scored,
                                          !.searchCalls = 1]
    /\ UNCHANGED <<now, rateVars, gateVars, enrichVars, identVars, liReq>>

LinkedinNext ==
    /\ liPc = "done"
    /\ liPc' = "idle"
    /\ liReq' = NoLinkedinReq
    /\ liLast' = NoLinkedinResp
    /\ UNCHANGED <<now, rateVars, gateVars, enrichVars, identVars>>


----------------------------------------------------------------------------
(* Specifications *)

MaxStore == 2

ClaimIdle ==
    /\ claimPc = [q \in Slots |-> "idle"]
    /\ claimReq = [q \in Slots |-> NoClaimReq]
    /\ claimResp = [q \in Slots |-> NoClaimResp]
    /\ claimWins = [i \in 1..(MaxStore + 1) |-> 0]

LookupIdle ==
    /\ lookupPc = "idle"
    /\ lookupReq = NoLookupReq
    /\ lookupLast = NoLookupResp

CacheEmpty ==
    /\ cachedGeminiModelName = NULL
    /\ cachedGeminiModelAtMs = 0
    /\ resolver = [c \in Callers |-> NoResolution]
    /\ lastOkStart = -1

LinkedinIdle ==
    /\ liPc = "idle"
    /\ liReq = NoLinkedinReq
    /\ liLast = NoLinkedinResp

EnrichIdle ==
    /\ LinkedinIdle
    /\ CacheEmpty
    /\ enPc = "idle"
    /\ enReq = NoEnrichReq
    /\ enResp = NoEnrichResp

IdentIdle ==
    /\ attendees = <<>>
    /\ ClaimIdle
    /\ LookupIdle

MaxVaried == 2
MaxExtraRows == 1
MaxRows == FuzzyLimit + MaxExtraRows

RateInit ==
    /\ memoryStore = [k \in RateKeys |-> NoEntry]
    /\ lastCleanup = 0
    /\ rlReqs = [k \in RateKeys |-> 0]
    /\ rlLast = NoRateResult

GateIdle == gateLast = [endpoint |-> None, ran |-> <<>>, status |-> 0, retryAfter |-> 0]

InitRate ==
    /\ now = 0
    /\ RateInit
    /\ GateIdle
    /\ EnrichIdle
    /\ IdentIdle

NextRate ==
    \/ Tick
    \/ \E name \in SpecRateLimiters, ip \in ClientIPs : rateLimitMiddleware(name, ip)

SpecRate == InitRate /\ [][NextRate]_vars

MaxPasses == 2

(* the instants around every multiple of the reaping interval *)
ReapInstants ==
    {0, 1} \cup {q * CLEANUP_INTERVAL_MS + j : q \in 1..MaxPasses, j \in {-WindowMs, -1, 0, 1}}

InitReap ==
    /\ now = 0
    /\ RateInit
    /\ GateIdle
    /\ EnrichIdle
    /\ IdentIdle

NextReap ==
    \/ Elapse(ReapInstants)
    \/ \E name \in SpecRateLimiters, ip \in ClientIPs : rateLimitMiddlewareAt(name, ip, ReapInstants)

SpecReap == InitReap /\ [][NextReap]_vars

(* C6: within a window the first `limit` requests of a key are admitted and *)
(* every further one is denied with HTTP 429 and a retry-after above 0.     *)
C6_FirstNAdmittedRestDeniedPositiveRetry ==
    rlLast.key # None =>
        LET limit == rateLimiters[rlLast.key[1]].limit
        IN  /\ rlLast.nth <= limit => rlLast.allowed
            /\ rlLast.nth > limit =>
                  ~rlLast.allowed /\ rlLast.status = 429 /\ rlLast.retryAfter > 0


GateLimiters == {"strict", "lookup", "admin"}

(* a process that has served requests of one client in the current window:  *)
(* every profile's entry of that client is one short of its limit or at it  *)
InitGate ==
    /\ now = 0
    /\ \E f \in [GateLimiters -> {1, 2}] :
          /\ memoryStore =
                [k \in RateKeys |->
                    IF k[2] = "ip1" /\ k[1] \in GateLimiters
                    THEN [count |-> rateLimiters[k[1]].limit + 1 - f[k[1]],
                          resetAt |-> WindowMs]
                    ELSE NoEntry]
          /\ rlReqs =
                [k \in RateKeys |->
                    IF k[2] = "ip1" /\ k[1] \in GateLimiters
                    THEN rateLimiters[k[1]].limit + 1 - f[k[1]]
                    ELSE 0]
    /\ lastCleanup = 0
    /\ rlLast = NoRateResult
    /\ GateIdle
    /\ EnrichIdle
    /\ IdentIdle

NextGate ==
    \/ \E ep \in Endpoints : GatedRequest(ep, "ip1")
    \/ \E ep \in Endpoints : UngatedRequest(ep)

SpecGate == InitGate /\ [][NextGate]_vars

(* C7: every endpoint consults its rate limiter before anything else, and a *)
(* denied request runs nothing else and gets 429 with a retry-after hint.   *)
C7_LimiterFirstOnEveryEndpoint ==
    gateLast.endpoint # None =>
        /\ gateLast.ran[1] = "rateLimit"
        /\ gateLast.status = 429 => gateLast.ran = <<"rateLimit">>

ClaimNames == {RobSmith, robertSmithLc, RobertJones}
ClaimSeedNames == {RobertSmith, AlanSmith}

(* seeded, unclaimed rows; a seeded row may carry the e-mail the admin entered *)
InitClaim ==
    /\ now = 0
    /\ RateInit
    /\ GateIdle
    /\ EnrichIdle
    /\ \E n \in 1..MaxStore :
         \E names \in [1..n -> ClaimSeedNames], mails \in [1..n -> {NULL, "u2@mail"}] :
            /\ \A i, j \in 1..n : (i # j /\ mails[i] # NULL) => mails[i] # mails[j]
            /\ attendees = [i \in 1..n |-> [SeedRow(names[i]) EXCEPT !.email = mails[i]]]
    /\ ClaimIdle
    /\ LookupIdle

NextClaim ==
    \/ \E q \in Slots, u \in Users, id \in 1..(MaxStore + 1), name \in ClaimNames,
          failed \in BOOLEAN : ClaimFetch(q, u, id, name, failed)
    \/ \E q \in Slots, failed \in BOOLEAN : ClaimUpdate(q, failed)
    \/ \E q \in Slots : ClaimNext(q)

SpecClaim == InitClaim /\ [][NextClaim]_vars

(* the slots whose request passed the name check and ran its UPDATE *)
RanUpdate(q) ==
    /\ claimPc[q] = "done"
    /\ claimResp[q].cause \in {"claimed", "uniqueViolation"}
          \/ (claimResp[q].cause = "alreadyClaimed" /\ claimResp[q].status = 500)

(* C4 as stated: whenever a request with an eligible name has run its update *)
(* (the datastore answering), exactly one request has received success for   *)
(* that record and the record belongs to a caller.                           *)
C4_ExactlyOneSuccess ==
    \A q \in Slots :
        RanUpdate(q) =>
            /\ claimWins[claimResp[q].attendeeId] = 1
            /\ attendees[claimResp[q].attendeeId].user_id # NULL

C4_AtMostOneInv ==
    /\ \A id \in 1..Len(attendees) :
          /\ claimWins[id] <= 1
          /\ claimWins[id] = 1 <=> attendees[id].user_id # NULL
    /\ \A q \in Slots :
          /\ (claimPc[q] = "done" /\ claimResp[q].cause = "claimed")
                => attendees[claimResp[q].attendeeId].user_id = claimReq[q].user
          /\ (RanUpdate(q) /\ claimResp[q].cause # "uniqueViolation")
                => claimWins[claimResp[q].attendeeId] = 1

C4_Stable ==
    \A id \in 1..Len(attendees) :
        attendees[id].user_id # NULL => attendees'[id] = attendees[id]

(* C4, amended: at most one claim request per record receives success, and   *)
(* exactly one once a request has run its update without the datastore       *)
(* failing or a unique index rejecting the caller; the record then belongs to *)
(* the successful caller, and no claim request changes a claimed record.      *)
C4_AtMostOneAndStable == []C4_AtMostOneInv /\ [][C4_Stable]_vars

(* two requests raced for one record: both passed the name check, one won *)
C4_Witness ==
    \E q1, q2 \in Slots :
        /\ q1 # q2
        /\ claimPc[q1] = "done" /\ claimPc[q2] = "done"
        /\ claimResp[q1].attendeeId = claimResp[q2].attendeeId
        /\ claimResp[q1].cause = "claimed"
        /\ claimResp[q2].cause = "alreadyClaimed" /\ claimResp[q2].status = 500
        /\ claimReq[q1].user # claimReq[q2].user

(* C5: the answer to a request that lost because the record was already      *)
(* claimed differs from the answer to an unknown id or a name mismatch and   *)
(* from the answer to a database error.                                      *)
C5_ConflictDistinguishable ==
    \A q1, q2 \in Slots :
        (/\ claimPc[q1] = "done" /\ claimPc[q2] = "done"
         /\ claimResp[q1].cause = "alreadyClaimed"
         /\ claimResp[q2].cause \in {"unknownId", "nameMismatch", "requestFailed"})
            => <<claimResp[q1].status, claimResp[q1].error>>
                    # <<claimResp[q2].status, claimResp[q2].error>>

SeedNames == {RobertSmith, RosaSmith, AlanSmith, RSmith}
QueryNames == {RobSmith, robertSmithLc, RobertJones, RSmith, Smith, Ro_Smith}

InitLookup ==
    /\ now = 0
    /\ RateInit
    /\ GateIdle
    /\ EnrichIdle
    /\ IdentIdle

(* the first MaxVaried rows take any seeded name and any owner; the rows after *)
(* them are unclaimed rows of one more family member                           *)
NextLookup ==
    \/ \E name \in SeedNames :
          /\ Len(attendees) < MaxRows
          /\ Len(attendees) >= MaxVaried => name = AlanSmith
          /\ AdminInsert(name)
    \/ \E u \in {"u1"}, name \in SeedNames :
          /\ Len(attendees) < MaxVaried
          /\ RegisterProfile(u, name)
    \/ \E name \in QueryNames, failed \in BOOLEAN : LookupExact(name, failed)
    \/ \E failed \in BOOLEAN : LookupFuzzy(failed)
    \/ \E name \in QueryNames, failed \in BOOLEAN : LookupExactOnly(name, failed)
    \/ LookupNext

SpecLookup == InitLookup /\ [][NextLookup]_vars

(* the lookup answered from one unchanged table, with both queries succeeding *)
LookupAnswered ==
    /\ lookupPc = "done"
    /\ lookupLast.status = 200
    /\ lookupLast.via # "exactOnly"
    /\ lookupLast.quiet
    /\ ~lookupLast.fuzzyFailed

SameIgnoringCase(a, b) == toLowerCase(a) = toLowerCase(b)

(* the fuzzy rule as stated: equal last tokens, first tokens of two or more *)
(* letters with the same first two, all ignoring case                       *)
FuzzyRule(a, b) ==
    LET pa == splitWhitespace(a)
        pb == splitWhitespace(b)
    IN  /\ pa # <<>> /\ pb # <<>>
        /\ SameIgnoringCase(pa[Len(pa)], pb[Len(pb)])
        /\ Len(pa[1]) >= 2 /\ Len(pb[1]) >= 2
        /\ SameIgnoringCase(substring0(pa[1], 2), substring0(pb[1], 2))

NewestUnclaimed(table, Matches(_)) ==
    LET ids == {j \in 1..Len(table) : table[j].user_id = NULL /\ Matches(table[j].name)}
    IN  IF ids = {} THEN NoRow ELSE CHOOSE j \in ids : \A k \in ids : k <= j

(* C9: for every table and query name the lookup returns Found with the      *)
(* newest unclaimed record of case-insensitively equal name if there is one, *)
(* else Found with the newest unclaimed record matching the fuzzy rule if    *)
(* there is one, however many other unclaimed records share the last token,  *)
(* else NotFound. Stated for the handler with the fuzzy fallback, answering  *)
(* from an unchanged table with both queries succeeding.                     *)
C9_LookupReturnsNewestMatch ==
    LookupAnswered =>
        LET q == lookupReq.name
            ByName(n) == SameIgnoringCase(n, q)
            ByRule(n) == FuzzyRule(n, q)
            exact == NewestUnclaimed(attendees, ByName)
            fuzzy == NewestUnclaimed(attendees, ByRule)
            expected == IF exact # NoRow THEN exact ELSE fuzzy
        IN  /\ lookupLast.found = (expected # NoRow)
            /\ lookupLast.attendeeId = expected

(* C10: a record the lookup returns is unclaimed; a record the fuzzy fallback *)
(* returns has the query's last token and a first token of two or more       *)
(* letters that starts with the query's first two, ignoring case; with only   *)
(* an unclaimed "Robert Smith" stored, "Rob Smith" is Found and "Robert       *)
(* Jones" is NotFound (by the handler with the fuzzy fallback, when both      *)
(* queries succeed).                                                          *)
OnlyRobertSmithStored == attendees = <<SeedRow(RobertSmith)>>

C10_ReturnedRecordUnclaimedAndFuzzy ==
    lookupPc = "done" =>
        /\ lookupLast.found =>
              /\ lookupLast.attendeeId \in 1..Len(attendees)
              /\ attendees[lookupLast.attendeeId].user_id = NULL
        /\ lookupLast.via = "fuzzy" =>
              /\ lookupLast.found
              /\ FuzzyRule(attendees[lookupLast.attendeeId].name, lookupReq.name)
        /\ (LookupAnswered /\ OnlyRobertSmithStored) =>
              /\ lookupReq.name = RobSmith =>
                    lookupLast.found /\ lookupLast.attendeeId = 1
              /\ lookupReq.name = RobertJones => ~lookupLast.found

(* a fuzzy answer given while the table also holds claimed rows and rows of *)
(* the same last name that the rule rejects                                 *)
C10_Witness ==
    /\ lookupPc = "done"
    /\ lookupLast.via = "fuzzy"
    /\ lookupReq.name = RobSmith
    /\ \E j \in 1..Len(attendees) : attendees[j].user_id # NULL
    /\ \E j \in 1..Len(attendees) :
          /\ j > lookupLast.attendeeId
          /\ attendees[j].user_id = NULL
          /\ attendees[j].name = AlanSmith

MaxTtls == 1
CacheInstants == {0, 1} \cup {k * TTL_MS + j : k \in 1..MaxTtls, j \in {-1, 0, 1}}

InitResolver ==
    /\ now = 0
    /\ RateInit
    /\ GateIdle
    /\ EnrichIdle
    /\ IdentIdle

NextResolver ==
    \/ Elapse(CacheInstants)
    \/ \E c \in Callers : FallbackResolution(c)
    \/ \E c \in Callers, listing \in Listings : FallbackListed(c, listing)

SpecResolver == InitResolver /\ [][NextResolver]_vars

InitEnrich ==
    /\ now = 0
    /\ RateInit
    /\ GateIdle
    /\ EnrichIdle
    /\ IdentIdle

NextEnrich ==
    \/ Elapse({TTL_MS})
    \/ \E body \in EnrichBodies, gk, tk \in BOOLEAN : EnrichStart(body, gk, tk)
    \/ \E outcome \in {"ok"} \cup SearchFailures, n \in 0..MaxResults :
          EnrichSearched(outcome, n)
    \/ \E text \in Texts : EnrichGen1Text(text)
    \/ \E err \in GenErrors, message \in UpstreamTexts : EnrichGen1Error(err, message)
    \/ \E listing \in Listings : EnrichListed(listing)
    \/ \E text \in Texts : EnrichGen2Text(text)
    \/ \E err \in GenErrors, message \in UpstreamTexts : EnrichGen2Error(err, message)
    \/ \E text \in Texts : EnrichStrictText(text)
    \/ \E err \in GenErrors, message \in UpstreamTexts : EnrichStrictError(err, message)
    \/ EnrichNext

SpecEnrich == InitEnrich /\ [][NextEnrich]_vars

(* every outbound call of a request in progress returns or throws *)
EnrichAnswer(T) ==
    \/ \E outcome \in {"ok"} \cup SearchFailures, n \in 0..MaxResults :
          EnrichSearched(outcome, n)
    \/ \E text \in T : EnrichGen1Text(text)
    \/ \E err \in GenErrors, message \in UpstreamTexts : EnrichGen1Error(err, message)
    \/ \E listing \in Listings : EnrichListed(listing)
    \/ \E text \in T : EnrichGen2Text(text)
    \/ \E err \in GenErrors, message \in UpstreamTexts : EnrichGen2Error(err, message)
    \/ \E text \in T : EnrichStrictText(text)
    \/ \E err \in GenErrors, message \in UpstreamTexts : EnrichStrictError(err, message)

(* the texts that differ in how they parse, with an object without lists as the document *)
LiveTexts == [wrap : Wraps, defect : Defects, value : {JsonNull, JsonObject(Absent, Absent)}]

NextEnrichLive ==
    \/ Elapse({TTL_MS})
    \/ \E body \in EnrichBodies, gk, tk \in BOOLEAN : EnrichStart(body, gk, tk)
    \/ EnrichAnswer(LiveTexts)
    \/ EnrichNext

SpecEnrichLive == InitEnrich /\ [][NextEnrichLive]_vars /\ WF_vars(EnrichAnswer(LiveTexts))

(* C1: a successful enrich response carries exactly 3 summary entries, *)
(* whatever the generation service returned.                            *)
C1_SummaryHasThreeEntries ==
    (enPc = "done" /\ enResp.status = 200) => Len(enResp.summary) = 3

(* C2: a successful enrich response carries between 1 and 3 tags, whatever *)
(* the generation service returned.                                         *)
C2_TagsBetweenOneAndThree ==
    (enPc = "done" /\ enResp.status = 200) =>
        (Len(enResp.industry_tags) >= 1 /\ Len(enResp.industry_tags) <= 3)

(* C3: once the first completed generation call of a request has returned a *)
(* text, the request ends in a successful result and never in an error,     *)
(* whatever the text and whatever the later recovery steps do.              *)
C3_TextReceivedNeverFails ==
    (enPc = "done" /\ enReq.gotText) => enResp.status = 200

(* C8 as stated: after a resolution that listed a model, every resolution    *)
(* that starts less than 10 minutes after it returns the cached name without *)
(* the listing call, and one that starts 10 minutes or more after it makes   *)
(* the listing call again and replaces the entry.                            *)
C8_CachedForTenMinutesThenReplaced ==
    \A c \in Callers :
        resolver[c].pc # "idle" =>
            /\ resolver[c].recentOk => resolver[c].hit
            /\ (resolver[c].hadOk /\ ~resolver[c].recentOk) =>
                  ~resolver[c].hit /\ resolver[c].pc # "threw"

(* C8, amended: a resolution returns the cached name without the listing call *)
(* exactly when it starts less than 10 minutes after the timestamp of the     *)
(* entry it finds; otherwise it makes the listing call, and it replaces the   *)
(* entry, stamped with its own start time, only when the listing offers a     *)
(* capable model: a failed resolution leaves the entry as it was.             *)
C8_EntryDecides ==
    \A c \in Callers :
        resolver[c].pc # "idle" =>
            /\ resolver[c].hit <=>
                  (resolver[c].seenName # NULL
                     /\ resolver[c].now - resolver[c].seenAtMs < 10 * 60 * 1000)
            /\ resolver[c].hit =>
                  resolver[c].pc = "returned" /\ resolver[c].out = resolver[c].seenName

C8_EntryWrites ==
    \A c \in Callers :
        /\ (resolver[c].pc = "listing" /\ resolver'[c].pc = "returned") =>
              /\ cachedGeminiModelName' = resolver'[c].out
              /\ cachedGeminiModelAtMs' = resolver[c].now
        /\ (resolver[c].pc = "listing" /\ resolver'[c].pc = "threw") =>
              UNCHANGED <<cachedGeminiModelName, cachedGeminiModelAtMs>>
        /\ (resolver[c].pc # "listing" /\ resolver'[c] # resolver[c]) =>
              UNCHANGED <<cachedGeminiModelName, cachedGeminiModelAtMs>>

C8_CacheHonoursEntryTtl == []C8_EntryDecides /\ [][C8_EntryWrites]_vars

(* one caller served from the cache in the last millisecond of the entry, *)
(* the other one listing again at the 10 minutes and replacing the entry  *)
C8_Witness ==
    /\ resolver["e2"].pc = "returned" /\ resolver["e2"].hit
    /\ resolver["e2"].now - resolver["e2"].seenAtMs = 10 * 60 * 1000 - 1
    /\ resolver["e1"].pc = "returned" /\ ~resolver["e1"].hit
    /\ resolver["e1"].seenName # NULL
    /\ resolver["e1"].now - resolver["e1"].seenAtMs = 10 * 60 * 1000
    /\ cachedGeminiModelAtMs = resolver["e1"].now

LinkedinRequests ==
    [name : {RobertSmith, RSmith},
     job_title : {NotGiven, Given(SalesRep)},
     company : {NotGiven, Given(<<>>), Given(AjaxSports)}]

InitLinkedin ==
    /\ now = 0
    /\ RateInit
    /\ GateIdle
    /\ EnrichIdle
    /\ IdentIdle

NextLinkedin ==
    \/ \E limited, authed, valid, key \in BOOLEAN, req \in LinkedinRequests :
          LinkedinStart(limited, authed, req, valid, key)
    \/ \E ok \in BOOLEAN, results \in SeqsUpTo(HitPool, MaxHits) : LinkedinSearched(ok, results)
    \/ LinkedinNext

SpecLinkedin == InitLinkedin /\ [][NextLinkedin]_vars

LinkedinAnswered == liPc = "done" /\ liLast.status = 200

RECURSIVE C11_TokenPoints(_, _, _)
C11_TokenPoints(tokens, text, points) ==
    IF tokens = <<>> THEN 0
    ELSE (IF Len(Head(tokens)) > 2 /\ includes(text, Head(tokens)) THEN points ELSE 0)
           + C11_TokenPoints(Tail(tokens), text, points)

C11_Tokens(field) == IF truthy(field) THEN splitWhitespace(toLowerCase(field.text)) ELSE <<>>

C11_StatedScore(hit, req) ==
    LET text == toLowerCase(hit.title \o <<" ">> \o hit.content)
    IN  C11_TokenPoints(splitWhitespace(toLowerCase(req.name)), text, 10)
          + C11_TokenPoints(C11_Tokens(req.job_title), text, 5)
          + (IF truthy(req.company) /\ includes(text, toLowerCase(req.company.text))
             THEN 15
             ELSE C11_TokenPoints(C11_Tokens(req.company), text, 3))

(* a is b with the company string added to its snippet, and b's text has no company token *)
C11_DiffersByCompany(a, b, req) ==
    /\ truthy(req.company)
    /\ a.hit.title = b.hit.title
    /\ a.hit.content = b.hit.content \o <<" ">> \o req.company.text
    /\ C11_TokenPoints(C11_Tokens(req.company), combinedText(b.hit), 1) = 0

(* C11: every scored candidate's score is 10 per name token longer than 2
   characters found in its lower-cased title and snippet, plus 5 per such
   job-title token, plus 15 when the whole lower-cased company string is found
   and otherwise 3 per company token longer than 2 characters found; and a
   candidate that differs from another only by containing the full company
   name, where the other contains no part of it, scores at least 15 more. *)
C11_ScoreIsAdditive ==
    LinkedinAnswered =>
        /\ \A i \in 1..Len(liLast.scored) :
              liLast.scored[i].score = C11_StatedScore(liLast.scored[i].hit, liReq)
        /\ \A i, j \in 1..Len(liLast.scored) :
              C11_DiffersByCompany(liLast.scored[i], liLast.scored[j], liReq)
                  => liLast.scored[i].score >= liLast.scored[j].score + 15

C11_Witness ==
    /\ LinkedinAnswered
    /\ truthy(liReq.job_title)
    /\ \E i, j \in 1..Len(liLast.scored) :
          /\ C11_DiffersByCompany(liLast.scored[i], liLast.scored[j], liReq)
          /\ liLast.scored[i].score = 45
          /\ liLast.scored[j].score = 30
    /\ \E k \in 1..Len(liLast.scored) :
          /\ ~includes(combinedText(liLast.scored[k].hit), toLowerCase(liReq.company.text))
          /\ liLast.scored[k].score = 23

C12_Personal(results) == {i \in 1..Len(results) : includes(results[i].url, ProfilePath)}

C12_Best(results, req) ==
    LET P == C12_Personal(results)
        top == CHOOSE m \in {scoreOf(results[i], req) : i \in P} :
                   \A i \in P : scoreOf(results[i], req) <= m
        first == CHOOSE i \in P :
                   /\ scoreOf(results[i], req) = top
                   /\ \A j \in P : scoreOf(results[j], req) = top => i <= j
    IN  results[first]

(* C12: an answered search returns the URL of the highest-scoring hit among
   those whose URL contains "linkedin.com/in/", the earliest such hit when
   several share the highest score; hits without that path are not among the
   scored candidates; and with no such hit the response is a success with a
   null profile URL. *)
C12_BestPersonalProfileFirstOnTies ==
    LinkedinAnswered =>
        /\ liLast.success
        /\ \A i \in 1..Len(liLast.scored) : includes(liLast.scored[i].hit.url, ProfilePath)
        /\ Len(liLast.scored) = Cardinality(C12_Personal(liLast.results))
        /\ IF C12_Personal(liLast.results) = {}
           THEN liLast.urlIsNull
           ELSE /\ ~liLast.urlIsNull
                /\ liLast.linkedin_url = C12_Best(liLast.results, liReq).url

C12_Witness ==
    /\ LinkedinAnswered
    /\ liLast.results = << Hit(UrlCompany, RobertSmith, SalesRepAjaxSports),
                           Hit(UrlAl, RobertSmith, SalesRepAjaxSports),
                           Hit(UrlRob, RobertSmith, SalesRep) >>
    /\ ~truthy(liReq.company)
    /\ Len(liLast.scored) = 2
    /\ liLast.scored[1].score = liLast.scored[2].score
    /\ liLast.linkedin_url = UrlAl


EnrichDone == enPc = "done"

(* C13: when the first text passes none of the parse tiers and the text of
   the strict re-issue does not parse either, the response is a success that
   carries the fixed 3 generic sentences and the fixed 3 generic tags. *)
C13_UnparseableGivesFixedDefault ==
    (EnrichDone /\ enReq.path = "default") =>
        /\ enResp.status = 200
        /\ enResp.error = NULL
        /\ enResp.summary = << "Experienced professional in their field",
                               "Focused on collaboration and industry impact",
                               "Open to meaningful networking conversations" >>
        /\ enResp.industry_tags = << "Brand Communications", "Data and Technology",
                                     "Sales, Partnerships and Merchandise" >>

C13_Witness ==
    /\ EnrichDone
    /\ enReq.path = "default"
    /\ enReq.genCalls >= 2
    /\ enResp.status = 200
    /\ Len(enResp.summary) = 3
    /\ Len(enResp.industry_tags) = 3

(* C14: when the generation output parsed to an object, a summary list of
   more than 3 entries is returned as its first 3 entries in their order, and
   an industry_tags list of at most 3 entries is returned unchanged. *)
C14_LongSummaryCutShortTagsKept ==
    (EnrichDone /\ enReq.path \in {"primary", "strict"} /\ enReq.raw.kind = "object") =>
        /\ (enReq.raw.summary.isArray /\ Len(enReq.raw.summary.items) > 3) =>
              /\ enResp.status = 200
              /\ Len(enResp.summary) = 3
              /\ \A i \in 1..3 : enResp.summary[i] = enReq.raw.summary.items[i]
        /\ (enReq.raw.industry_tags.isArray /\ Len(enReq.raw.industry_tags.items) <= 3) =>
              /\ enResp.status = 200
              /\ enResp.industry_tags = enReq.raw.industry_tags.items

C14_Witness ==
    /\ EnrichDone
    /\ enReq.path = "primary"
    /\ enReq.raw = JsonObject(ListOf(<<"s1", "s2", "s3", "s4">>), ListOf(<<"Public Relations">>))
    /\ enResp.summary = <<"s1", "s2", "s3">>
    /\ enResp.industry_tags = <<"Public Relations">>

(* C15: a 502 is returned only after two generation attempts have errored,
   the first on the preferred model and the second on the fallback model. *)
C15_FailureOnlyAfterFallbackAttempt ==
    (EnrichDone /\ enResp.status = 502) =>
        /\ enReq.firstError # NULL
        /\ enReq.fallbackCalls = 1

EnrichNoOutboundCall ==
    enReq.searchCalls = 0 /\ enReq.genCalls = 0 /\ enReq.listCalls = 0

C16_Rejected ==
    EnrichDone =>
        /\ enReq.body \in {"noName", "emptyName", "blankName"} =>
              enResp.status = 400 /\ enResp.error = "Name is required" /\ EnrichNoOutboundCall
        /\ (enReq.body = "named" /\ ~enReq.geminiKey) =>
              enResp.status = 500 /\ EnrichNoOutboundCall

C16_CacheUntouched ==
    (enPc = "idle" /\ enPc' = "done") => UNCHANGED cacheVars

(* C16: a request whose name is missing, empty or only whitespace is answered
   400, and a named request arriving without the generation credential is
   answered 500; both answers are produced with no search, generation or
   listing call made and with the model cache as it was. *)
C16_RejectedBeforeAnyOutboundCall ==
    []C16_Rejected /\ [][C16_CacheUntouched]_vars

C16_Witness ==
    /\ EnrichDone
    /\ enReq.body = "blankName"
    /\ enResp.status = 400
    /\ EnrichNoOutboundCall
    /\ cachedGeminiModelName # NULL

(* C17: after a failed search step (no search credential, non-OK status or a
   thrown error) the request goes on to generation, and a successful response
   then reports sources_found = 0. *)
C17_SearchFailureIsNotFatal ==
    (enReq.search \in {"noKey", "notOk", "threw"}) =>
        /\ enReq.genCalls >= 1
        /\ enReq.tavilyError
        /\ (EnrichDone /\ enResp.status = 200) => enResp.sources_found = 0

C17_Witness ==
    /\ EnrichDone
    /\ enReq.search = "notOk"
    /\ enReq.searchCalls = 1
    /\ enResp.status = 200
    /\ enResp.sources_found = 0

(* C18: an error response carries no text of an upstream error or of a caught
   exception, only fixed text. *)
C18_ErrorBodyCarriesNoUpstreamText ==
    (EnrichDone /\ enResp.status >= 400) => enResp.carried = NULL

(* C19: the tags of a response built from a parsed model response are all in
   the approved list of 24 subcategories. *)
C19_PrimaryTagsWithinApprovedList ==
    (EnrichDone /\ enResp.status = 200 /\ enReq.path = "primary"
        /\ enReq.raw.industry_tags.isArray) =>
        \A i \in 1..Len(enResp.industry_tags) :
            enResp.industry_tags[i] \in ApprovedSubcategories

(* C20: the listing call and the fallback generation attempt happen only
   after a first attempt that failed with status 404 or a message matching
   "not found" or "not supported for generateContent"; after any other first
   error the request has failed with one generation call and no listing call;
   and there is never more than one fallback attempt. *)
C20_FallbackOnlyOnModelIssue ==
    /\ (enReq.listCalls > 0 \/ enReq.fallbackCalls > 0) =>
          enReq.firstError \in {"status404", "notFoundMessage", "notSupportedMessage"}
    /\ (enReq.firstError \in {"otherError", "noText"}) =>
          /\ EnrichDone
          /\ enResp.status = 502
          /\ enReq.listCalls = 0
          /\ enReq.fallbackCalls = 0
          /\ enReq.genCalls = 1
    /\ enReq.fallbackCalls <= 1
    /\ enReq.listCalls <= 1

C20_Witness ==
    /\ EnrichDone
    /\ enReq.firstError = "notSupportedMessage"
    /\ enReq.listCalls = 1
    /\ enReq.fallbackCalls = 1
    /\ enResp.status = 200

(* the positions in a listing of the models that have a name and advertise generateContent *)
C21_Capable(listing) ==
    {j \in 1..Len(listing.models) :
        /\ listing.models[j].name.short # ""
        /\ "generateContent" \in listing.models[j].supportedGenerationMethods}

(* the positions in the preference list of the capable models of a listing *)
C21_Ranks(listing) ==
    {i \in 1..Len(preferred) :
        \E j \in C21_Capable(listing) :
            listing.models[j].name = ModelName(TRUE, preferred[i])}

C21_Expected(listing) ==
    IF C21_Ranks(listing) # {}
    THEN preferred[CHOOSE i \in C21_Ranks(listing) : \A k \in C21_Ranks(listing) : i <= k]
    ELSE listing.models[CHOOSE j \in C21_Capable(listing) :
                            \A k \in C21_Capable(listing) : j <= k].name.short

(* C21: a resolution that missed the cache and returned gives the capable
   named model of its listing that stands earliest in the preference list,
   or, when none is in that list, the first capable named model of the
   listing; the returned model advertises generateContent in that listing. *)
C21_PicksByPreferenceThenProviderOrder ==
    \A c \in Callers :
        (resolver[c].pc = "returned" /\ ~resolver[c].hit) =>
            /\ resolver[c].listing.ok
            /\ C21_Capable(resolver[c].listing) # {}
            /\ resolver[c].out = C21_Expected(resolver[c].listing)
            /\ \E j \in C21_Capable(resolver[c].listing) :
                  resolver[c].listing.models[j].name.short = resolver[c].out

C21_Witness ==
    \E c, d \in Callers :
        /\ resolver[c].pc = "returned" /\ ~resolver[c].hit
        /\ resolver[c].listing = Listing(<<ProModel, EmbedModel, FlashModel>>)
        /\ resolver[c].out = "gemini-1.5-flash"
        /\ resolver[d].pc = "returned" /\ ~resolver[d].hit
        /\ resolver[d].listing = Listing(<<TunedModel>>)
        /\ resolver[d].out = "tuned-x"

(* the shapes of a text holding a JSON object that extraction and repair make parseable *)
C22_RecoverableShapes ==
    { w \o "/" \o d \o "/object" :
        w \in {"bare", "fenced", "prose"}, d \in {"none", "smartQuotes", "trailingComma"} }

(* C22: the strict re-issue is made at most once and only after the parse
   tiers failed on the original text, and a strict reply that is a JSON
   object inside a code fence, inside prose, or with smart quotes or a
   trailing comma is recovered, not replaced by the default result. *)
C22_StrictReplyGoesThroughAllTiers ==
    /\ enReq.strictCalls <= 1
    /\ (enReq.strictCalls = 1) => enReq.gotText
    /\ (EnrichDone /\ enReq.strictText \in C22_RecoverableShapes) => enReq.path # "default"

(* a listing that failed, or that has no named model advertising generateContent *)
C23_NothingCapable(listing) ==
    \/ ~listing.ok
    \/ \A j \in 1..Len(listing.models) :
          \/ listing.models[j].name.short = ""
          \/ "generateContent" \notin listing.models[j].supportedGenerationMethods

C23_ListingAnswered == enPc = "listing" /\ enPc' # "listing"

C23_Step ==
    (C23_ListingAnswered /\ C23_NothingCapable(resolver'["e1"].listing)) =>
        /\ resolver'["e1"].pc = "threw"
        /\ enPc' = "done"
        /\ enResp'.status = 502
        /\ enReq'.fallbackCalls = 0
        /\ cachedGeminiModelName' = cachedGeminiModelName
        /\ cachedGeminiModelAtMs' = cachedGeminiModelAtMs
        /\ cachedGeminiModelName' = resolver["e1"].seenName
        /\ cachedGeminiModelAtMs' = resolver["e1"].seenAtMs

(* C23: when the listing call fails or lists no named model that advertises
   generateContent, the resolution throws, the enrich request ends with 502,
   and the cached name and timestamp are what they were when the resolution
   started. *)
C23_NoCapableModelFailsAndKeepsCache == [][C23_Step]_vars

C23_Witness ==
    /\ EnrichDone
    /\ resolver["e1"].pc = "threw"
    /\ resolver["e1"].listing = Listing(<<EmbedModel, NamelessModel>>)
    /\ enResp.status = 502
    /\ cachedGeminiModelName # NULL
    /\ cachedGeminiModelName = resolver["e1"].seenName

C30_Completes(c) == resolver[c].pc = "listing" /\ resolver'[c].pc = "returned"
C30_Fails(c) == resolver[c].pc = "listing" /\ resolver'[c].pc = "threw"

(* the entry after the step is the name and the start time of c's resolution, *)
(* the name being capable in the listing c received                          *)
C30_EntryWrittenBy(c) ==
    /\ cachedGeminiModelName' = resolver'[c].out
    /\ cachedGeminiModelAtMs' = resolver'[c].now
    /\ \E j \in 1..Len(resolver'[c].listing.models) :
          /\ resolver'[c].listing.models[j].name.short = cachedGeminiModelName'
          /\ "generateContent" \in resolver'[c].listing.models[j].supportedGenerationMethods

C30_Step ==
    /\ \A c \in Callers : C30_Completes(c) => C30_EntryWrittenBy(c)
    /\ \A c \in Callers : C30_Fails(c) => UNCHANGED <<cachedGeminiModelName, cachedGeminiModelAtMs>>
    /\ (\A c \in Callers : ~C30_Completes(c)) =>
          UNCHANGED <<cachedGeminiModelName, cachedGeminiModelAtMs>>

(* C30: under interleaved resolutions the cache is empty or holds the name
   and timestamp written together by one completed resolution, the name
   capable in that resolution's own listing; each completing resolution
   replaces the whole entry, and a failing one writes nothing. *)
C30_CacheWrittenWholeByOneResolution ==
    /\ [](cachedGeminiModelName = NULL => cachedGeminiModelAtMs = 0)
    /\ [][C30_Step]_vars

(* a second resolution, started before the first one wrote, completes later and replaces the entry *)
C30_Witness ==
    \E c, d \in Callers :
        /\ c # d
        /\ resolver[c].pc = "returned" /\ ~resolver[c].hit
        /\ resolver[d].pc = "returned" /\ ~resolver[d].hit
        /\ resolver[c].out # resolver[d].out
        /\ resolver[c].now > resolver[d].now
        /\ cachedGeminiModelName = resolver[d].out
        /\ cachedGeminiModelAtMs = resolver[d].now

(* C24: a lookup whose fuzzy query failed answers with an error, and the
   answer found = false is given only when every query made succeeded. *)
C24_QueryFailureIsNotNotFound ==
    (lookupPc = "done" /\ lookupLast.fuzzyFailed) =>
        /\ lookupLast.status >= 400
        /\ ~(lookupLast.status = 200 /\ ~lookupLast.found)

(* a step in which the limiter answered a request *)
RateAnswered == rlLast' # rlLast

(* C25: when a key was denied with retry-after r and its next request comes
   r seconds or more after the denial, that request is admitted and opens a
   new window with count 1. *)
C25_Step ==
    (/\ RateAnswered
     /\ rlLast.key # None
     /\ ~rlLast.allowed
     /\ rlLast'.key = rlLast.key
     /\ now >= rlLast.at + rlLast.retryAfter * 1000) =>
        /\ rlLast'.allowed
        /\ memoryStore'[rlLast.key] = [count |-> 1, resetAt |-> now + WindowMs]

C25_AdmittedAfterRetryAfter == [][C25_Step]_vars

C26_Limit(key) == rateLimiters[key[1]].limit

C26_EntriesWithinLimit ==
    \A k \in RateKeys :
        HasEntry(memoryStore, k) =>
            memoryStore[k].count >= 1 /\ memoryStore[k].count <= C26_Limit(k)

(* an admission adds exactly one to the open window or opens a window at 1; *)
(* a denial leaves the entry of its key as it was                           *)
C26_Step ==
    RateAnswered =>
        LET k == rlLast'.key
            open == HasEntry(memoryStore, k) /\ memoryStore[k].resetAt >= now
        IN  IF rlLast'.allowed
            THEN IF open
                 THEN /\ memoryStore'[k].count = memoryStore[k].count + 1
                      /\ memoryStore'[k].resetAt = memoryStore[k].resetAt
                      /\ memoryStore[k].count < C26_Limit(k)
                 ELSE memoryStore'[k] = [count |-> 1, resetAt |-> now + WindowMs]
            ELSE /\ open
                 /\ memoryStore'[k] = memoryStore[k]

(* C26: whatever the order in which the requests of different callers are
   handled, an entry's count stays between 1 and the limit, each admission
   counts once in its window, so that at most `limit` requests are admitted
   per window, and a denied request leaves count and resetAt unchanged. *)
C26_AtMostLimitPerWindow == []C26_EntriesWithinLimit /\ [][C26_Step]_vars

C26_Witness ==
    /\ rlLast.nth > 6
    /\ ~rlLast.allowed
    /\ rlLast.key = RateKey("expensive", "ip1")
    /\ memoryStore[RateKey("expensive", "ip1")].count = 5
    /\ memoryStore[RateKey("expensive", "ip2")].count = 5
    /\ memoryStore[RateKey("expensive", "ip2")].resetAt > memoryStore[RateKey("expensive", "ip1")].resetAt

C27_Pass == lastCleanup' # lastCleanup

C27_Step ==
    /\ C27_Pass =>
          /\ now - lastCleanup >= 5 * 60 * 1000
          /\ lastCleanup' = now
          /\ \A k \in RateKeys :
                (HasEntry(memoryStore, k) /\ memoryStore[k].resetAt < now) =>
                    \/ ~HasEntry(memoryStore', k)
                    \/ k = rlLast'.key /\ memoryStore'[k] = [count |-> 1, resetAt |-> now + WindowMs]
    /\ \A k \in RateKeys :
          (HasEntry(memoryStore, k) /\ memoryStore[k].resetAt >= now') =>
              /\ HasEntry(memoryStore', k)
              /\ memoryStore'[k].resetAt = memoryStore[k].resetAt
              /\ memoryStore'[k].count >= memoryStore[k].count

(* C27: a reaping pass happens only in a request that arrives at least 5
   minutes after the previous pass; it removes every entry whose resetAt is
   before the current time, and no step removes or lowers an entry whose
   window is still open. *)
C27_ReapingOnlyRemovesExpired == [][C27_Step]_vars

(* after a pass: the expired entry of the other caller is gone, the open one of this caller is kept *)
C27_Witness ==
    /\ rlLast.reaped
    /\ lastCleanup >= 5 * 60 * 1000
    /\ HasEntry(memoryStore, rlLast.key)
    /\ memoryStore[rlLast.key].count >= 2
    /\ \E k \in RateKeys : ~HasEntry(memoryStore, k) /\ rlReqs[k] > 0

EnrichInProgress == enPc \notin {"idle", "done"}

C28_CallsBounded ==
    /\ enReq.searchCalls <= 1
    /\ enReq.listCalls <= 1
    /\ enReq.genCalls <= 3
    /\ enReq.fallbackCalls <= 1
    /\ enReq.strictCalls <= 1
    /\ enReq.genCalls <= 1 + enReq.fallbackCalls + enReq.strictCalls

(* the response is written in the step that ends the request, and only there *)
C28_OneResponse ==
    /\ EnrichInProgress => enResp = NoEnrichResp
    /\ EnrichDone => enResp.status # 0

(* C28: when every outbound call returns or throws, a request makes at most
   one search call, one listing call and three generation calls (first
   attempt, fallback attempt, strict re-issue) and then ends with exactly one
   response. *)
C28_BoundedCallsThenOneResponse ==
    /\ [](C28_CallsBounded /\ C28_OneResponse)
    /\ (EnrichInProgress ~> EnrichDone)

C28_Witness ==
    /\ EnrichDone
    /\ enReq.searchCalls = 1
    /\ enReq.listCalls = 1
    /\ enReq.genCalls = 3
    /\ enResp.status = 200

(* C29: every record the fuzzy-capable lookup reports as found for a name    *)
(* passes the claim handler's name verification for the same name while it   *)
(* stays unclaimed and unchanged: it is unclaimed, so the claim's fetch      *)
(* finds it, and its name is an exact or a fuzzy match, so the claim is not  *)
(* rejected as a name mismatch                                               *)
C29_Found == LookupAnswered /\ lookupLast.found

C29_LookupMatchIsClaimEligible ==
    C29_Found =>
        /\ lookupLast.attendeeId \in 1..Len(attendees)
        /\ attendees[lookupLast.attendeeId].user_id = NULL
        /\ claimEligible(attendees[lookupLast.attendeeId].name, lookupReq.name)

C29_Witness ==
    /\ C29_Found
    /\ lookupLast.via = "fuzzy"
    /\ ~exactMatch(attendees[lookupLast.attendeeId].name, lookupReq.name)
    /\ fuzzyMatch(attendees[lookupLast.attendeeId].name, lookupReq.name)
    /\ \E j \in 1..Len(attendees) :
          /\ attendees[j].user_id = NULL
          /\ ~claimEligible(attendees[j].name, lookupReq.name)

====
